---- MODULE Spec2Model ----
(***************************************************************************)
(* SamKnows Whitebox client: AuthManager (samknows_whitebox/auth.py),      *)
(* _make_request (samknows_whitebox/helpers.py, whitebox.py), WhiteboxApi  *)
(* (samknows_whitebox/api.py) and the earlier WhiteboxApi draft            *)
(* (whitebox.py).                                                          *)
(*                                                                         *)
(* The client runs on one asyncio event loop: the code between two network *)
(* suspensions of a task is one atomic step.  Every network request is a   *)
(* pair of steps: the step that sends it (ending at a *_wait position) and *)
(* the step that resumes the task with the response.                       *)
(***************************************************************************)
EXTENDS Integers, Sequences, FiniteSets, TLC

(***************************************************************************)
(* Bounds                                                                  *)
(***************************************************************************)
MaxTime == 1
NumTokens == 2
NumTasks == 2
NumCallers == 1
NumUnits == 2
MaxListLen == 2
MaxCalls == 2

Times == 0..MaxTime
TokenIds == 1..NumTokens
Tasks == 1..NumTasks
Callers == 1..NumCallers
UnitIds == 1..NumUnits

(***************************************************************************)
(* Python values                                                           *)
(***************************************************************************)
None == [kind |-> "None"]
\* the JWT of the wire carries its exp claim; Undecodable marks a string
\* jwt.decode rejects
Undecodable == 0 - 1
Jwt(i, e) == [kind |-> "str", id |-> i, exp |-> e]
\* the "%Y-%m-%d %H:%M:%S" strings of the wire; BadDate is one strptime rejects
BadDate == 0 - 1

Ok(v) == [ok |-> TRUE, val |-> v]
Err(e) == [ok |-> FALSE, exc |-> e]

ExpirableToken(tok, exp) == [kind |-> "ExpirableToken", token |-> tok, expiry |-> exp]

is_expired_Strict(tok, t) == t > tok.expiry

\* auth.py 22-23
is_expired(tok, t) == t >= tok.expiry

_get_token_expiry(token) ==
    IF token.exp = Undecodable THEN Err("DecodeError") ELSE Ok(token.exp)

strptime(s) == IF s = BadDate THEN Err("ValueError") ELSE Ok(s)

Has(d, k) == k \in DOMAIN d

(***************************************************************************)
(* Responses of the backend.  net says how far the exchange got:           *)
(*   "connect_error"  the request context manager raises                   *)
(*                    ClientConnectorError on entry (no response object)   *)
(*   "json_connector_error"  raw_response.json() raises                    *)
(*                    ClientConnectorError                                 *)
(*   "json_error"     raw_response.json() raises ContentTypeError          *)
(*   "ok"             raw_response.json() returns body                     *)
(***************************************************************************)
EmptyDict == <<>>
Envelope(code, data) == [code |-> code, data |-> data]
NetFail == {[net |-> "connect_error"], [net |-> "json_connector_error"],
            [net |-> "json_error"]}
Body(b) == [net |-> "ok", body |-> b]

\* The backend issues tokens that are still valid when issued: issued at
\* time t, a token expires at some later time.
Expiries(t) == {e \in 1..(MaxTime + 1) : e > t}
IssuedJwts(t) ==
    {Jwt(i, e) : i \in TokenIds, e \in Expiries(t)}
    \cup {Jwt(i, Undecodable) : i \in TokenIds}
\* the refresh token string is opaque to the client: one value stands for all
RefreshTokenString == [kind |-> "str", id |-> 0]
RefreshTokenDatas(t) ==
    {[token |-> RefreshTokenString]}
    \cup {[token |-> RefreshTokenString, expiresAt |-> d] : d \in Expiries(t) \cup {BadDate}}
LoginDatas(t) ==
    {EmptyDict}
    \cup {[accessToken |-> j] : j \in IssuedJwts(t)}
    \cup {[accessToken |-> j, refreshToken |-> r] :
              j \in IssuedJwts(t), r \in RefreshTokenDatas(t)}
LoginResponses(t) ==
    NetFail \cup {Body([code |-> "ERR"]), Body([code |-> "OK"])}
    \cup {Body(Envelope("OK", d)) : d \in LoginDatas(t)}
RenewDatas(t) == {EmptyDict} \cup {[accessToken |-> j] : j \in IssuedJwts(t)}
RenewResponses(t) ==
    NetFail \cup {Body([code |-> "ERR"]), Body([code |-> "OK"])}
    \cup {Body(Envelope("OK", d)) : d \in RenewDatas(t)}

(***************************************************************************)
(* State                                                                   *)
(***************************************************************************)
VARIABLES
    now,                  \* datetime.now()
    access_token,         \* AuthManager.access_token
    access_token_expiry,  \* AuthManager.access_token_expiry (set by renewal only)
    refresh_token,        \* AuthManager.refresh_token
    tasks,                \* the coroutines of the event loop
    last,                 \* the outcome of the most recently completed call
    request,              \* one call of a function of its arguments: what it got, what it gave
    _unit_cache,          \* WhiteboxApi._unit_cache (api.py)
    seen,                 \* what the backend and the callers have seen so far
    client,               \* the client module in use: api.py or whitebox.py
    wb,                   \* the fields of the WhiteboxApi of whitebox.py
    units,                \* WhiteboxApi.units (api.py)
    coordinator_data,     \* WhitebooxCoordinator.data: the snapshot the entities read
    entity                \* one MetricEntity of sensor.py

vars == <<now, access_token, access_token_expiry, refresh_token, tasks, last, request,
          _unit_cache, seen, client, wb, units, coordinator_data, entity>>

\* an attribute never assigned, and one holding a datetime
Unset == [kind |-> "unset"]
Datetime(t) == [kind |-> "datetime", t |-> t]

\* the AuthManager fields as one value, so that the steps compose
Auth == [access_token |-> access_token,
         access_token_expiry |-> access_token_expiry,
         refresh_token |-> refresh_token]


(***************************************************************************)
(* AuthManager.login, from the response on (auth.py 58-95).  The result is *)
(* the AuthManager fields after the call and what the call returns/raises. *)
(***************************************************************************)
Outcome(a, o) == [auth |-> a, out |-> o]

LoginStoreRefresh(a, data) ==
    IF ~Has(data, "refreshToken") THEN Outcome(a, Err("KeyError"))
    ELSE LET rt == data.refreshToken IN
         IF ~Has(rt, "token") \/ ~Has(rt, "expiresAt") THEN Outcome(a, Err("KeyError"))
         ELSE LET e == strptime(rt.expiresAt) IN
              IF ~e.ok THEN Outcome(a, Err(e.exc))
              ELSE Outcome([a EXCEPT !.refresh_token = ExpirableToken(rt.token, e.val)],
                           Ok("True"))

LoginStoreAccess(a, data) ==
    IF ~Has(data, "accessToken") THEN Outcome(a, Err("KeyError"))
    ELSE LET e == _get_token_expiry(data.accessToken) IN
         IF ~e.ok THEN Outcome(a, Err(e.exc))
         ELSE LoginStoreRefresh(
                  [a EXCEPT !.access_token = ExpirableToken(data.accessToken, e.val)],
                  data)

login_ClearsOnRefusal(a, resp) ==
    IF resp.net = "connect_error" THEN Outcome(a, Err("ClientConnectorError"))
    ELSE IF resp.net = "json_connector_error" THEN Outcome(a, Ok("False"))
    ELSE IF resp.net = "json_error" THEN Outcome(a, Err("ContentTypeError"))
    ELSE LET response == resp.body IN
         IF ~Has(response, "code") \/ response.code # "OK"
         THEN Outcome([a EXCEPT !.access_token = None, !.refresh_token = None], Ok("False"))
         ELSE IF ~Has(response, "data") THEN Outcome(a, Err("KeyError"))
         ELSE LoginStoreAccess(a, response.data)

\* auth.py 58-95, from the response on
login(a, resp) ==
    IF resp.net = "connect_error" THEN Outcome(a, Err("ClientConnectorError"))
    ELSE IF resp.net = "json_connector_error" THEN Outcome(a, Ok("False"))
    ELSE IF resp.net = "json_error" THEN Outcome(a, Err("ContentTypeError"))
    ELSE LET response == resp.body IN
         IF ~Has(response, "code") \/ response.code # "OK" THEN Outcome(a, Ok("False"))
         ELSE IF ~Has(response, "data") THEN Outcome(a, Err("KeyError"))
         ELSE LoginStoreAccess(a, response.data)

(***************************************************************************)
(* AuthManager._refresh_access_token (auth.py 113-139): the test made      *)
(* before any request, and the handling of the /renew response.            *)
(***************************************************************************)
RefreshWithoutRequest_NoneOnly(a, t) ==
    a.refresh_token = None

RefreshWithoutRequest(a, t) ==
    a.refresh_token = None \/ is_expired(a.refresh_token, t)

RenewStore(a, data) ==
    IF ~Has(data, "accessToken") THEN Outcome(a, Ok("False"))
    ELSE LET new_access_token == data.accessToken
             a1 == [a EXCEPT !.access_token = new_access_token]
             e == _get_token_expiry(new_access_token)
         IN  IF ~e.ok THEN Outcome(a1, Ok("False"))
             ELSE Outcome([a1 EXCEPT !.access_token_expiry = Datetime(e.val)], Ok("True"))

_refresh_access_token(a, resp) ==
    IF resp.net = "connect_error" THEN Outcome(a, Err("ClientConnectorError"))
    ELSE IF resp.net \in {"json_connector_error", "json_error"} THEN Outcome(a, Ok("False"))
    ELSE LET response == resp.body IN
         IF ~Has(response, "code") \/ response.code # "OK" THEN Outcome(a, Ok("False"))
         ELSE IF ~Has(response, "data") THEN Outcome(a, Ok("False"))
         ELSE RenewStore(a, response.data)

(***************************************************************************)
(* AuthManager.get_fresh_token (auth.py 97-111), cut at its suspensions.   *)
(* h is the record of the call so far: the requests it sent and what its   *)
(* refresh and its login reported.                                         *)
(***************************************************************************)
NoResult == [kind |-> "none"]
Return(v) == [kind |-> "return", value |-> v]
Raise(e) == [kind |-> "raise", exc |-> e]
FromOut(o) == IF o.ok THEN Return(o.val) ELSE Raise(o.exc)

NewCall == [sent |-> <<>>, refreshed |-> "unset", logged_in |-> "unset"]

Segment(a, pc, res, h) == [auth |-> a, pc |-> pc, res |-> res, h |-> h]

\* lines 108-111
GftFinish(a, h) ==
    IF a.access_token = None THEN Segment(a, "returned", Raise("CouldNotAuthenticate"), h)
    ELSE IF a.access_token.kind # "ExpirableToken"
         THEN Segment(a, "returned", Raise("AttributeError"), h)
    ELSE Segment(a, "returned", Return(a.access_token.token), h)

GftStart_KeepsToken(a, t) ==
    IF a.access_token # None /\ a.access_token.kind # "ExpirableToken"
    THEN Segment(a, "returned", Raise("AttributeError"), NewCall)
    ELSE IF a.access_token # None
    THEN Segment(a, "returned", Return(a.access_token.token), NewCall)
    ELSE IF RefreshWithoutRequest(a, t)
    THEN Segment(a, "login_wait", NoResult,
                 [NewCall EXCEPT !.refreshed = "False", !.sent = <<"login">>])
    ELSE Segment(a, "renew_wait", NoResult, [NewCall EXCEPT !.sent = <<"renew">>])

\* lines 102-107, to the first request
GftStart(a, t) ==
    IF a.access_token # None /\ a.access_token.kind # "ExpirableToken"
    THEN Segment(a, "returned", Raise("AttributeError"), NewCall)
    ELSE IF a.access_token # None /\ ~is_expired(a.access_token, t)
    THEN Segment(a, "returned", Return(a.access_token.token), NewCall)
    ELSE IF RefreshWithoutRequest(a, t)
    THEN Segment(a, "login_wait", NoResult,
                 [NewCall EXCEPT !.refreshed = "False", !.sent = <<"login">>])
    ELSE Segment(a, "renew_wait", NoResult, [NewCall EXCEPT !.sent = <<"renew">>])

GftAfterRenew_AlwaysLogin(a, h, resp) ==
    LET r == _refresh_access_token(a, resp) IN
    IF ~r.out.ok
    THEN Segment(r.auth, "returned", Raise(r.out.exc), [h EXCEPT !.refreshed = "raised"])
    ELSE Segment(r.auth, "login_wait", NoResult,
                 [h EXCEPT !.refreshed = r.out.val, !.sent = Append(@, "login")])

GftAfterRenew_NoFallback(a, h, resp) ==
    LET r == _refresh_access_token(a, resp) IN
    IF ~r.out.ok
    THEN Segment(r.auth, "returned", Raise(r.out.exc), [h EXCEPT !.refreshed = "raised"])
    ELSE GftFinish(r.auth, [h EXCEPT !.refreshed = r.out.val])

\* lines 105-107, from the /renew response on
GftAfterRenew(a, h, resp) ==
    LET r == _refresh_access_token(a, resp) IN
    IF ~r.out.ok
    THEN Segment(r.auth, "returned", Raise(r.out.exc), [h EXCEPT !.refreshed = "raised"])
    ELSE IF r.out.val = "True"
    THEN GftFinish(r.auth, [h EXCEPT !.refreshed = "True"])
    ELSE Segment(r.auth, "login_wait", NoResult,
                 [h EXCEPT !.refreshed = "False", !.sent = Append(@, "login")])

\* lines 107-111, from the /login response on
GftAfterLogin(a, h, resp) ==
    LET r == login(a, resp) IN
    IF ~r.out.ok
    THEN Segment(r.auth, "returned", Raise(r.out.exc), [h EXCEPT !.logged_in = "raised"])
    ELSE GftFinish(r.auth, [h EXCEPT !.logged_in = r.out.val])

(***************************************************************************)
(* Tasks that call the AuthManager directly.  A task holds the position of *)
(* one call in flight; last is what the most recently completed call gave  *)
(* its caller, with the clock and the stored access token of that moment.  *)
(***************************************************************************)
IdleTask == [op |-> "none", pc |-> "idle", h |-> NewCall]

Completed(op, h, res, a, t) ==
    [op |-> op, h |-> h, result |-> res, now |-> t, stored |-> a.access_token]

SetAuth(a) ==
    /\ access_token' = a.access_token
    /\ access_token_expiry' = a.access_token_expiry
    /\ refresh_token' = a.refresh_token

\* the task and the caller after a get_fresh_token segment
AfterGft(t, g) ==
    /\ SetAuth(g.auth)
    /\ IF g.pc = "returned"
       THEN /\ tasks' = [tasks EXCEPT ![t] = IdleTask]
            /\ last' = Completed("get_fresh_token", g.h, g.res, g.auth, now)
       ELSE /\ tasks' = [tasks EXCEPT ![t] = [op |-> "get_fresh_token", pc |-> g.pc, h |-> g.h]]
            /\ UNCHANGED last

Free(t) == tasks[t].pc = "idle"

CallGetFreshToken(t) ==
    /\ Free(t)
    /\ AfterGft(t, GftStart(Auth, now))
    /\ UNCHANGED <<now, request, _unit_cache, seen, client, entity, wb, units, coordinator_data>>

CallLogin(t) ==
    /\ Free(t)
    /\ tasks' = [tasks EXCEPT ![t] = [op |-> "login", pc |-> "login_wait",
                                      h |-> [NewCall EXCEPT !.sent = <<"login">>]]]
    /\ UNCHANGED <<now, access_token, access_token_expiry, refresh_token, last, request,
                   _unit_cache, seen, client, entity, wb, units, coordinator_data>>

RenewResponse(t, resp) ==
    /\ tasks[t].pc = "renew_wait"
    /\ tasks[t].op = "get_fresh_token"
    /\ AfterGft(t, GftAfterRenew(Auth, tasks[t].h, resp))
    /\ UNCHANGED <<now, request, _unit_cache, seen, client, entity, wb, units, coordinator_data>>

LoginResponse(t, resp) ==
    /\ tasks[t].pc = "login_wait"
    /\ tasks[t].op = "get_fresh_token"
    /\ AfterGft(t, GftAfterLogin(Auth, tasks[t].h, resp))
    /\ UNCHANGED <<now, request, _unit_cache, seen, client, entity, wb, units, coordinator_data>>

\* WhiteboxApi.login (api.py 61-67) hands AuthManager.login's result through
DirectLoginResponse(t, resp) ==
    /\ tasks[t].pc = "login_wait"
    /\ tasks[t].op = "login"
    /\ LET r == login(Auth, resp) IN
       /\ SetAuth(r.auth)
       /\ last' = Completed("login",
                            [tasks[t].h EXCEPT !.logged_in = IF r.out.ok THEN r.out.val
                                                             ELSE "raised"],
                            FromOut(r.out), r.auth, now)
    /\ tasks' = [tasks EXCEPT ![t] = IdleTask]
    /\ UNCHANGED <<now, request, _unit_cache, seen, client, entity, wb, units, coordinator_data>>

Tick ==
    /\ now < MaxTime
    /\ now' = now + 1
    /\ UNCHANGED <<access_token, access_token_expiry, refresh_token, tasks, last, request,
                   _unit_cache, seen, client, entity, wb, units, coordinator_data>>

NoCall == [op |-> "none", h |-> NewCall, result |-> NoResult, now |-> 0, stored |-> None]

NoRequest == [state |-> "none"]
\* details: unit-detail requests sent so far, per unit id; started: unit-listing
\* calls made; lists: the backend lists of the calls that returned, in order of
\* return; overlap, forced, failed: whether some call started while another was
\* in flight, was made with force_fresh, raised
NothingSeen == [details |-> [k \in UnitIds |-> 0], started |-> 0, lists |-> <<>>,
                overlap |-> FALSE, forced |-> FALSE, failed |-> FALSE]

\* WhiteboxApi of whitebox.py as constructed (whitebox.py 16-25)
WbConstructed ==
    [access_token |-> None, access_token_expiry |-> None, refresh_token |-> None,
     refresh_token_expiry |-> None, _unit_cache |-> EmptyDict, _session |-> None]

Clients == {"api.py", "whitebox.py"}

\* the client as constructed (auth.py 33-45, api.py 46-49, whitebox.py 16-25)
Constructed ==
    /\ now = 0
    /\ access_token = None
    /\ access_token_expiry = Unset
    /\ refresh_token = None
    /\ tasks = [t \in Tasks |-> IdleTask]
    /\ last = NoCall
    /\ _unit_cache = EmptyDict
    /\ seen = NothingSeen
    /\ wb = WbConstructed
    /\ units = <<>>
    /\ coordinator_data = None
    /\ entity = None

Init ==
    /\ Constructed
    /\ request = NoRequest
    /\ client = "api.py"

NextAuth ==
    \/ Tick
    \/ \E t \in Tasks : CallGetFreshToken(t)
    \/ \E t \in Tasks : CallLogin(t)
    \/ \E t \in Tasks : \E resp \in RenewResponses(now) : RenewResponse(t, resp)
    \/ \E t \in Tasks : \E resp \in LoginResponses(now) : LoginResponse(t, resp)
    \/ \E t \in Tasks : \E resp \in LoginResponses(now) : DirectLoginResponse(t, resp)

SpecAuth == Init /\ [][NextAuth]_vars


(***************************************************************************)
(* _make_request: helpers.py 7-38 (used by api.py) and whitebox.py 204-232 *)
(* The two bodies are the same text; they differ in the module whose       *)
(* globals resolve the name RequestFailed when the raise statement runs.   *)
(***************************************************************************)
HelpersGlobals == {"logging", "aiohttp", "_LOGGER", "_make_request"}
WhiteboxGlobals == {"datetime", "logging", "aiohttp", "jwt", "_LOGGER", "WhiteboxApi",
                    "_make_request", "_get_token_expiry", "RefreshFailed",
                    "CouldNotAuthenticate", "RequestFailed"}
Modules == {"helpers.py", "whitebox.py"}
Globals(module) == IF module = "helpers.py" THEN HelpersGlobals ELSE WhiteboxGlobals

\* raise Name(): the name is looked up in the module's globals first
RaiseNamed(module, name) ==
    IF name \in Globals(module) THEN Raise(name) ELSE Raise("NameError")

Bearer(token) == [kind |-> "str", scheme |-> "Bearer", token |-> token]

RequestHeaders_Overwrites(headers, token) ==
    LET hs == IF headers = None THEN EmptyDict ELSE headers IN
    IF token # None
    THEN [k \in DOMAIN hs \cup {"Authorization"} |->
             IF k = "Authorization" THEN Bearer(token) ELSE hs[k]]
    ELSE hs

\* helpers.py 21-24, whitebox.py 215-218
RequestHeaders(headers, token) ==
    LET hs == IF headers = None THEN EmptyDict ELSE headers IN
    IF token # None /\ ~Has(hs, "Authorization")
    THEN hs @@ ("Authorization" :> Bearer(token))
    ELSE hs

\* helpers.py 26-38, whitebox.py 220-232
RequestOutcome(module, resp) ==
    IF resp.net \in {"connect_error", "json_connector_error"}
    THEN Raise("ClientConnectorError")
    ELSE IF resp.net = "json_error" THEN Raise("ContentTypeError")
    ELSE LET response == resp.body IN
         IF Has(response, "code") /\ response.code = "OK"
         THEN Return(IF Has(response, "data") THEN response.data ELSE None)
         ELSE RaiseNamed(module, "RequestFailed")

_make_request(module, headers, token, resp) ==
    [headers |-> RequestHeaders(headers, token), result |-> RequestOutcome(module, resp)]

\* arguments and responses of one call
SomeHeaders == {None, EmptyDict, "Authorization" :> [kind |-> "str", scheme |-> "Basic"],
                "Accept" :> [kind |-> "str", scheme |-> "json"]}
SomeTokens == {None} \cup {Jwt(i, 1) : i \in TokenIds}
SomeDatas == {EmptyDict, [units |-> <<>>]}
SomeResponses ==
    NetFail
    \cup {Body(EmptyDict), Body([code |-> "ERR"]), Body([code |-> "OK"])}
    \cup {Body(Envelope(c, d)) : c \in {"OK", "ERR", "UNAUTHORIZED"}, d \in SomeDatas}

InitRequest ==
    /\ Constructed
    /\ client = "api.py"
    /\ request \in [state : {"called"}, module : Modules, headers : SomeHeaders,
                    token : SomeTokens, resp : SomeResponses]

MakeRequest ==
    /\ request.state = "called"
    /\ request' = [state |-> "done", module |-> request.module, resp |-> request.resp,
                   headers |-> request.headers, token |-> request.token,
                   made |-> _make_request(request.module, request.headers,
                                          request.token, request.resp)]
    /\ UNCHANGED <<now, access_token, access_token_expiry, refresh_token, tasks, last,
                   _unit_cache, seen, client, entity, wb, units, coordinator_data>>

NextRequest == MakeRequest

SpecRequest == InitRequest /\ [][NextRequest]_vars

(***************************************************************************)
(* WhiteboxApi of samknows_whitebox/api.py: fetch_user_units and _get_unit *)
(***************************************************************************)
Str(x) == [kind |-> "str", s |-> x]
Get(d, k, default) == IF Has(d, k) THEN d[k] ELSE default

RECURSIVE SeqsUpTo(_, _)
SeqsUpTo(S, n) ==
    IF n = 0 THEN {<<>>}
    ELSE LET shorter == SeqsUpTo(S, n - 1) IN
         shorter \cup {Append(q, x) : q \in {r \in shorter : Len(r) = n - 1}, x \in S}

\* GET /myAccessibles
UnitLists == SeqsUpTo({[unitId |-> k] : k \in UnitIds}, MaxListLen)
ListResponses ==
    {Body([code |-> "ERR"])} \cup {Body(Envelope("OK", [units |-> l])) : l \in UnitLists}
\* GET /units/{unit_id}
FrontNames == {Str("a"), Str("b")}
DetailDatas == {[id |-> k, front_name |-> n] : k \in UnitIds, n \in FrontNames}
DetailResponses ==
    {Body([code |-> "ERR"])} \cup {Body(Envelope("OK", d)) : d \in DetailDatas}

UnitDetails_IdFromData(unit_id, data, t) ==
    [unit_id |-> Get(data, "id", unit_id),
     base |-> Get(data, "base", None),
     front_name |-> Get(data, "front_name", None),
     mac |-> Get(data, "mac", None),
     serial_number |-> Get(data, "serial_number", None),
     package_version |-> Get(data, "package_version", None),
     is_tt_compatible |-> Get(data, "is_tt_compatible", FALSE),
     updated_at |-> t]

\* api.py 155-164
UnitDetails(unit_id, data, t) ==
    [unit_id |-> unit_id,
     base |-> Get(data, "base", None),
     front_name |-> Get(data, "front_name", None),
     mac |-> Get(data, "mac", None),
     serial_number |-> Get(data, "serial_number", None),
     package_version |-> Get(data, "package_version", None),
     is_tt_compatible |-> Get(data, "is_tt_compatible", FALSE),
     updated_at |-> t]

\* api.py 142-164, from the response on
_fetch_unit_information(unit_id, resp, t) ==
    LET r == RequestOutcome("helpers.py", resp) IN
    IF r.kind = "raise" THEN r
    ELSE IF r.value = None THEN Raise("AttributeError")
    ELSE Return(UnitDetails(unit_id, r.value, t))

\* one _get_unit coroutine of a gather
Kid(unit_id) ==
    [unit_id |-> unit_id, pc |-> "start", h |-> NewCall, fetched |-> FALSE, result |-> NoResult]
KidDone(kid) == kid.pc = "done"
KidRaised(kid) == kid.pc = "done" /\ kid.result.kind = "raise"

\* api.py 147-152: with the token, the detail request is sent
KidAfterGft(kid, g) ==
    IF g.pc = "returned"
    THEN IF g.res.kind = "return"
         THEN [kid EXCEPT !.pc = "detail_wait", !.h = NewCall, !.fetched = TRUE]
         ELSE [kid EXCEPT !.pc = "done", !.h = NewCall, !.result = g.res]
    ELSE [kid EXCEPT !.pc = g.pc, !.h = g.h]

_get_unit_IgnoreForce(a, t, cache, unit_id, force_fresh) ==
    IF unit_id \notin DOMAIN cache
    THEN KidAfterGft(Kid(unit_id), GftStart(a, t))
    ELSE [Kid(unit_id) EXCEPT !.pc = "done", !.result = Return(cache[unit_id])]

_get_unit_NoCache(a, t, cache, unit_id, force_fresh) ==
    KidAfterGft(Kid(unit_id), GftStart(a, t))

\* api.py 135-140, to the first suspension
_get_unit(a, t, cache, unit_id, force_fresh) ==
    IF force_fresh \/ unit_id \notin DOMAIN cache
    THEN KidAfterGft(Kid(unit_id), GftStart(a, t))
    ELSE [Kid(unit_id) EXCEPT !.pc = "done", !.result = Return(cache[unit_id])]

GetUnitStore_DropsOnFailure(cache, kid, resp, t) ==
    LET r == _fetch_unit_information(kid.unit_id, resp, t) IN
    IF r.kind = "raise"
    THEN [cache |-> [k \in DOMAIN cache \ {kid.unit_id} |-> cache[k]],
          kid |-> [kid EXCEPT !.pc = "done", !.result = r]]
    ELSE LET c1 == [k \in DOMAIN cache \cup {kid.unit_id} |->
                        IF k = kid.unit_id THEN r.value ELSE cache[k]]
         IN [cache |-> c1, kid |-> [kid EXCEPT !.pc = "done", !.result = Return(c1[kid.unit_id])]]

\* api.py 138-140, from the detail response on: the cache after it, the kid after it
GetUnitStore(cache, kid, resp, t) ==
    LET r == _fetch_unit_information(kid.unit_id, resp, t) IN
    IF r.kind = "raise"
    THEN [cache |-> cache, kid |-> [kid EXCEPT !.pc = "done", !.result = r]]
    ELSE LET c1 == [k \in DOMAIN cache \cup {kid.unit_id} |->
                        IF k = kid.unit_id THEN r.value ELSE cache[k]]
         IN [cache |-> c1, kid |-> [kid EXCEPT !.pc = "done", !.result = Return(c1[kid.unit_id])]]

\* a fetch_user_units call
ListCall(force_fresh) ==
    [op |-> "fetch_user_units", pc |-> "start", h |-> NewCall, force |-> force_fresh,
     listed |-> <<>>, kids |-> <<>>, exc |-> NoResult]

\* what the caller of a completed call got
LogEntry(p, res) ==
    [op |-> p.op, force |-> p.force, listed |-> p.listed, result |-> res,
     fetched |-> [i \in DOMAIN p.kids |-> p.kids[i].fetched]]

Step(tk, entry) == [task |-> tk, entry |-> entry]

\* the task once its caller has the result: kids still running outlive it
Finished(p) ==
    IF \A i \in DOMAIN p.kids : KidDone(p.kids[i]) THEN IdleTask
    ELSE [p EXCEPT !.pc = "orphans"]

\* api.py 110-115: with the token, the list request is sent
ParentAfterGft(p, g) ==
    IF g.pc = "returned"
    THEN IF g.res.kind = "return"
         THEN Step([p EXCEPT !.pc = "list_wait", !.h = NewCall], NoResult)
         ELSE Step(IdleTask, LogEntry(p, g.res))
    ELSE Step([p EXCEPT !.pc = g.pc, !.h = g.h], NoResult)

\* gather raises the first exception of its coroutines
FirstRaised(kids) ==
    IF \E i \in DOMAIN kids : KidRaised(kids[i])
    THEN kids[CHOOSE i \in DOMAIN kids :
                  /\ KidRaised(kids[i])
                  /\ \A j \in DOMAIN kids : KidRaised(kids[j]) => i <= j].result
    ELSE NoResult

RECURSIVE FirstOccurrences(_)
FirstOccurrences(l) ==
    IF l = <<>> THEN <<>>
    ELSE LET init == FirstOccurrences(SubSeq(l, 1, Len(l) - 1)) IN
         IF \E i \in DOMAIN init : init[i] = l[Len(l)] THEN init
         ELSE Append(init, l[Len(l)])
ListReceived_SingleFlight(p, resp, a, t, cache) ==
    LET r == RequestOutcome("helpers.py", resp) IN
    IF r.kind = "raise" THEN Step(IdleTask, LogEntry(p, r))
    ELSE IF r.value = None THEN Step(IdleTask, LogEntry(p, Raise("TypeError")))
    ELSE IF ~Has(r.value, "units") THEN Step(IdleTask, LogEntry(p, Raise("KeyError")))
    ELSE LET listed == FirstOccurrences([i \in DOMAIN r.value.units |->
                                            r.value.units[i].unitId])
             kids == [i \in DOMAIN listed |-> _get_unit(a, t, cache, listed[i], p.force)]
             p1 == [p EXCEPT !.listed = listed, !.kids = kids, !.exc = FirstRaised(kids)]
         IN  IF listed = <<>> THEN Step(IdleTask, LogEntry(p1, Return(<<>>)))
             ELSE Step([p1 EXCEPT !.pc = "gather"], NoResult)

\* api.py 116-123, from the list response to the suspension in gather
ListReceived(p, resp, a, t, cache) ==
    LET r == RequestOutcome("helpers.py", resp) IN
    IF r.kind = "raise" THEN Step(IdleTask, LogEntry(p, r))
    ELSE IF r.value = None THEN Step(IdleTask, LogEntry(p, Raise("TypeError")))
    ELSE IF ~Has(r.value, "units") THEN Step(IdleTask, LogEntry(p, Raise("KeyError")))
    ELSE LET listed == [i \in DOMAIN r.value.units |-> r.value.units[i].unitId]
             kids == [i \in DOMAIN listed |-> _get_unit(a, t, cache, listed[i], p.force)]
             p1 == [p EXCEPT !.listed = listed, !.kids = kids, !.exc = FirstRaised(kids)]
         IN  IF listed = <<>> THEN Step(IdleTask, LogEntry(p1, Return(<<>>)))
             ELSE Step([p1 EXCEPT !.pc = "gather"], NoResult)

\* a kid of p moves on
WithKid(p, i, kid) ==
    LET p1 == [p EXCEPT !.kids[i] = kid,
                        !.exc = IF @ = NoResult /\ KidRaised(kid) THEN kid.result ELSE @]
    IN  IF p1.pc = "orphans" THEN Finished(p1) ELSE p1

\* the detail requests a step sends, per unit id
NewDetails(old, new) ==
    [k \in UnitIds |->
        Cardinality({i \in DOMAIN new : /\ new[i].unit_id = k
                                        /\ new[i].pc = "detail_wait"
                                        /\ (i \in DOMAIN old => old[i].pc # "detail_wait")})]
NoDetails == [k \in UnitIds |-> 0]

Commit(t, a, tk, cache, entry, sends, s) ==
    /\ SetAuth(a)
    /\ tasks' = [tasks EXCEPT ![t] = tk]
    /\ _unit_cache' = cache
    /\ seen' = [s EXCEPT !.details = [k \in UnitIds |-> @[k] + sends[k]],
                         !.lists = IF entry # NoResult /\ entry.result.kind = "return"
                                   THEN Append(@, entry.listed) ELSE @,
                         !.failed = @ \/ (entry # NoResult /\ entry.result.kind = "raise")]
    /\ last' = IF entry = NoResult THEN last ELSE entry
    /\ UNCHANGED <<now, request, client, entity, wb, units, coordinator_data>>

InFlight(t) == tasks[t].pc # "idle"

CallFetchUserUnits(t, force_fresh) ==
    /\ client = "api.py"
    /\ Free(t)
    /\ seen.started < MaxCalls
    /\ LET g == GftStart(Auth, now)
           st == ParentAfterGft(ListCall(force_fresh), g)
       IN Commit(t, g.auth, st.task, _unit_cache, st.entry, NoDetails,
                 [seen EXCEPT !.started = @ + 1,
                              !.forced = @ \/ force_fresh,
                              !.overlap = @ \/ \E u \in Tasks : InFlight(u)])

ListTokenRenewed(t, resp) ==
    /\ tasks[t].op = "fetch_user_units"
    /\ tasks[t].pc = "renew_wait"
    /\ LET g == GftAfterRenew(Auth, tasks[t].h, resp)
           st == ParentAfterGft(tasks[t], g)
       IN Commit(t, g.auth, st.task, _unit_cache, st.entry, NoDetails, seen)

ListTokenLoggedIn(t, resp) ==
    /\ tasks[t].op = "fetch_user_units"
    /\ tasks[t].pc = "login_wait"
    /\ LET g == GftAfterLogin(Auth, tasks[t].h, resp)
           st == ParentAfterGft(tasks[t], g)
       IN Commit(t, g.auth, st.task, _unit_cache, st.entry, NoDetails, seen)

ListResponse(t, resp) ==
    /\ tasks[t].op = "fetch_user_units"
    /\ tasks[t].pc = "list_wait"
    /\ LET st == ListReceived(tasks[t], resp, Auth, now, _unit_cache)
       IN Commit(t, Auth, st.task, _unit_cache, st.entry,
                 IF st.task.pc = "gather" THEN NewDetails(<<>>, st.task.kids) ELSE NoDetails,
                 seen)

Gathering(t) == tasks[t].op = "fetch_user_units" /\ tasks[t].pc \in {"gather", "orphans"}

UnitTokenRenewed(t, i, resp) ==
    /\ Gathering(t)
    /\ i \in DOMAIN tasks[t].kids
    /\ tasks[t].kids[i].pc = "renew_wait"
    /\ LET g == GftAfterRenew(Auth, tasks[t].kids[i].h, resp)
           kid == KidAfterGft(tasks[t].kids[i], g)
       IN Commit(t, g.auth, WithKid(tasks[t], i, kid), _unit_cache, NoResult,
                 NewDetails(<<>>, <<kid>>), seen)

UnitTokenLoggedIn(t, i, resp) ==
    /\ Gathering(t)
    /\ i \in DOMAIN tasks[t].kids
    /\ tasks[t].kids[i].pc = "login_wait"
    /\ LET g == GftAfterLogin(Auth, tasks[t].kids[i].h, resp)
           kid == KidAfterGft(tasks[t].kids[i], g)
       IN Commit(t, g.auth, WithKid(tasks[t], i, kid), _unit_cache, NoResult,
                 NewDetails(<<>>, <<kid>>), seen)

DetailResponse(t, i, resp) ==
    /\ Gathering(t)
    /\ i \in DOMAIN tasks[t].kids
    /\ tasks[t].kids[i].pc = "detail_wait"
    /\ LET st == GetUnitStore(_unit_cache, tasks[t].kids[i], resp, now)
       IN Commit(t, Auth, WithKid(tasks[t], i, st.kid), st.cache, NoResult, NoDetails, seen)

GatherResult_Reversed(kids) ==
    [i \in DOMAIN kids |-> kids[Len(kids) + 1 - i].result.value]

\* api.py 116-121: gather returns the results in the order of its coroutines
GatherResult(kids) == [i \in DOMAIN kids |-> kids[i].result.value]

\* the gather of api.py 116-121 hands its result (or its first exception) over
GatherDone(t) ==
    /\ tasks[t].op = "fetch_user_units"
    /\ tasks[t].pc = "gather"
    /\ LET p == tasks[t] IN
       \/ /\ p.exc # NoResult
          /\ Commit(t, Auth, Finished(p), _unit_cache, LogEntry(p, p.exc), NoDetails, seen)
       \/ /\ p.exc = NoResult
          /\ \A i \in DOMAIN p.kids : KidDone(p.kids[i])
          /\ Commit(t, Auth, IdleTask, _unit_cache,
                    LogEntry(p, Return(GatherResult(p.kids))),
                    NoDetails, seen)

Kids == 1..MaxListLen

(***************************************************************************)
(* WhiteboxApi of whitebox.py, the earlier draft: login, _get_fresh_token, *)
(* _refresh_access_token, _fetch_units and _fetch_unit_information.  w is  *)
(* the object's fields.                                                    *)
(***************************************************************************)
ClientSession == [kind |-> "ClientSession"]

WbOutcome(w, o) == [wb |-> w, out |-> o]

\* whitebox.py 28-31: login() without a session argument
WbOwnSession(w) == IF w._session = None THEN [w EXCEPT !._session = ClientSession] ELSE w

\* whitebox.py 49-59
WbLoginStoreRefresh(w, data) ==
    IF ~Has(data, "refreshToken") THEN WbOutcome(w, Err("KeyError"))
    ELSE LET rt == data.refreshToken IN
         IF ~Has(rt, "token") THEN WbOutcome(w, Err("KeyError"))
         ELSE LET w1 == [w EXCEPT !.refresh_token = rt.token] IN
              IF ~Has(rt, "expiresAt") THEN WbOutcome(w1, Err("KeyError"))
              ELSE LET e == strptime(rt.expiresAt) IN
                   IF ~e.ok THEN WbOutcome(w1, Err(e.exc))
                   ELSE WbOutcome([w1 EXCEPT !.refresh_token_expiry = Datetime(e.val)],
                                  Ok("True"))

\* whitebox.py 45-48
WbLoginStoreAccess(w, data) ==
    IF ~Has(data, "accessToken") THEN WbOutcome(w, Err("KeyError"))
    ELSE LET w1 == [w EXCEPT !.access_token = data.accessToken]
             e == _get_token_expiry(data.accessToken)
         IN  IF ~e.ok THEN WbOutcome(w1, Err(e.exc))
             ELSE WbLoginStoreRefresh([w1 EXCEPT !.access_token_expiry = Datetime(e.val)],
                                      data)

\* whitebox.py 32-62, from the response on
WbLogin(w, resp) ==
    IF resp.net = "connect_error" THEN WbOutcome(w, Err("ClientConnectorError"))
    ELSE IF resp.net = "json_connector_error" THEN WbOutcome(w, Ok("False"))
    ELSE IF resp.net = "json_error" THEN WbOutcome(w, Err("ContentTypeError"))
    ELSE LET response == resp.body IN
         IF ~Has(response, "code") \/ response.code # "OK" THEN WbOutcome(w, Ok("False"))
         ELSE IF ~Has(response, "data") THEN WbOutcome(w, Err("KeyError"))
         ELSE WbLoginStoreAccess(w, response.data)

\* whitebox.py 85-101, from the response on
WbRefreshAccessToken(w, resp) ==
    IF resp.net = "connect_error" THEN WbOutcome(w, Err("ClientConnectorError"))
    ELSE IF resp.net \in {"json_connector_error", "json_error"} THEN WbOutcome(w, Ok("False"))
    ELSE LET response == resp.body IN
         IF ~Has(response, "code") \/ response.code # "OK" THEN WbOutcome(w, Ok("False"))
         ELSE IF ~Has(response, "data") THEN WbOutcome(w, Ok("False"))
         ELSE IF ~Has(response.data, "accessToken") THEN WbOutcome(w, Ok("False"))
         ELSE LET w1 == [w EXCEPT !.access_token = response.data.accessToken]
                  e == _get_token_expiry(response.data.accessToken)
              IN  IF ~e.ok THEN WbOutcome(w1, Ok("False"))
                  ELSE WbOutcome([w1 EXCEPT !.access_token_expiry = Datetime(e.val)],
                                 Ok("True"))

WbSegment(w, pc, res) == [wb |-> w, pc |-> pc, res |-> res]

\* whitebox.py 67-72 and 82-85, to the first request
WbGftStart(w, t) ==
    IF w.access_token_expiry = None THEN WbSegment(w, "returned", Raise("TypeError"))
    ELSE IF t < w.access_token_expiry.t
    THEN WbSegment(w, "returned", Return(w.access_token))
    ELSE IF w.refresh_token_expiry = None THEN WbSegment(w, "returned", Raise("TypeError"))
    ELSE IF t >= w.refresh_token_expiry.t
    THEN WbSegment(WbOwnSession(w), "login_wait", NoResult)
    ELSE IF w._session = None THEN WbSegment(w, "returned", Raise("AttributeError"))
    ELSE WbSegment(w, "renew_wait", NoResult)

\* whitebox.py 70-72, from the /renew response on: a renewed token is not returned,
\* the function ends without a return statement
WbGftAfterRenew(w, resp) ==
    LET r == WbRefreshAccessToken(w, resp) IN
    IF ~r.out.ok THEN WbSegment(r.wb, "returned", Raise(r.out.exc))
    ELSE IF r.out.val = "True" THEN WbSegment(r.wb, "returned", Return(None))
    ELSE WbSegment(WbOwnSession(r.wb), "login_wait", NoResult)

\* whitebox.py 72-74, from the /login response on
WbGftAfterLogin(w, resp) ==
    LET r == WbLogin(w, resp) IN
    IF ~r.out.ok THEN WbSegment(r.wb, "returned", Raise(r.out.exc))
    ELSE IF r.out.val = "True" THEN WbSegment(r.wb, "returned", Return(None))
    ELSE WbSegment(r.wb, "returned", Raise("CouldNotAuthenticate"))

\* models.py 4-24, called as UnitDetails(unit_id=data["id"], **data) (whitebox.py 178)
WbUnitDetails(data) ==
    [unit_id |-> data.id,
     front_name |-> Get(data, "front_name", None),
     mac_address |-> Get(data, "mac", None),
     base |-> Get(data, "base", None),
     serial_number |-> Get(data, "serial_number", None),
     sw_version |-> Get(data, "package_version", None),
     is_tt_compatible |-> Get(data, "is_tt_compatible", FALSE)]

\* whitebox.py 171-178, from the response on
WbFetchUnitInformation(resp) ==
    LET r == RequestOutcome("whitebox.py", resp) IN
    IF r.kind = "raise" THEN r
    ELSE IF r.value = None THEN Raise("TypeError")
    ELSE IF ~Has(r.value, "id") THEN Raise("KeyError")
    ELSE IF Has(r.value, "unit_id") THEN Raise("TypeError")
    ELSE Return(WbUnitDetails(r.value))

\* a _fetch_units call: stage is the request it is getting the token for or waiting
\* on, token what _get_fresh_token returned for that request, i the position of the
\* loop of lines 156-165 in the backend's list
WbListCall ==
    [op |-> "_fetch_units", pc |-> "start", stage |-> "list", token |-> None,
     listed |-> <<>>, i |-> 1, units |-> <<>>, fetched |-> <<>>]

WbLogEntry(p, res) ==
    [op |-> p.op, force |-> FALSE, listed |-> p.listed, result |-> res,
     fetched |-> p.fetched]

WbStep(w, tk, entry, sends) == [wb |-> w, task |-> tk, entry |-> entry, sends |-> sends]

\* whitebox.py 149-154 and 171-176: with the token, the request is sent on
\* self._session
WbAfterGft(p, g) ==
    IF g.pc # "returned" THEN WbStep(g.wb, [p EXCEPT !.pc = g.pc], NoResult, NoDetails)
    ELSE IF g.res.kind = "raise" THEN WbStep(g.wb, IdleTask, WbLogEntry(p, g.res), NoDetails)
    ELSE IF g.wb._session = None
    THEN WbStep(g.wb, IdleTask, WbLogEntry(p, Raise("AttributeError")), NoDetails)
    ELSE IF p.stage = "list"
    THEN WbStep(g.wb, [p EXCEPT !.pc = "list_wait", !.token = g.res.value], NoResult,
                NoDetails)
    ELSE WbStep(g.wb, [p EXCEPT !.pc = "detail_wait", !.token = g.res.value], NoResult,
                [k \in UnitIds |-> IF k = p.listed[p.i] THEN 1 ELSE 0])

\* whitebox.py 156-166: the loop, from position p.i to its next suspension
RECURSIVE WbLoop(_, _, _)
WbLoop(w, p, t) ==
    IF p.i > Len(p.listed) THEN WbStep(w, IdleTask, WbLogEntry(p, Return(p.units)), NoDetails)
    ELSE LET unit_id == p.listed[p.i] IN
         IF unit_id \in DOMAIN w._unit_cache
         THEN WbLoop(w, [p EXCEPT !.units = Append(@, w._unit_cache[unit_id]),
                                  !.fetched = Append(@, FALSE),
                                  !.i = @ + 1], t)
         ELSE WbAfterGft([p EXCEPT !.stage = "detail"], WbGftStart(w, t))

\* whitebox.py 149-156, from the list response on
WbListReceived(w, p, resp, t) ==
    LET r == RequestOutcome("whitebox.py", resp) IN
    IF r.kind = "raise" THEN WbStep(w, IdleTask, WbLogEntry(p, r), NoDetails)
    ELSE IF r.value = None THEN WbStep(w, IdleTask, WbLogEntry(p, Raise("TypeError")), NoDetails)
    ELSE IF ~Has(r.value, "units")
    THEN WbStep(w, IdleTask, WbLogEntry(p, Raise("KeyError")), NoDetails)
    ELSE WbLoop(w, [p EXCEPT !.listed = [i \in DOMAIN r.value.units |->
                                             r.value.units[i].unitId]], t)

\* whitebox.py 163-165, from the detail response on
WbDetailReceived(w, p, resp, t) ==
    LET r == WbFetchUnitInformation(resp) IN
    IF r.kind = "raise" THEN WbStep(w, IdleTask, WbLogEntry(p, r), NoDetails)
    ELSE LET unit_id == p.listed[p.i]
             c1 == [k \in DOMAIN w._unit_cache \cup {unit_id} |->
                        IF k = unit_id THEN r.value ELSE w._unit_cache[k]]
         IN  WbLoop([w EXCEPT !._unit_cache = c1],
                    [p EXCEPT !.units = Append(@, r.value),
                              !.fetched = Append(@, TRUE),
                              !.i = @ + 1], t)

WbCommit(t, st, s) ==
    /\ wb' = st.wb
    /\ tasks' = [tasks EXCEPT ![t] = st.task]
    /\ seen' = [s EXCEPT !.details = [k \in UnitIds |-> @[k] + st.sends[k]],
                         !.lists = IF st.entry # NoResult /\ st.entry.result.kind = "return"
                                   THEN Append(@, st.entry.listed) ELSE @,
                         !.failed = @ \/ (st.entry # NoResult
                                          /\ st.entry.result.kind = "raise")]
    /\ last' = IF st.entry = NoResult THEN last ELSE st.entry
    /\ UNCHANGED <<now, access_token, access_token_expiry, refresh_token, request,
                   _unit_cache, client, entity, units, coordinator_data>>

\* whitebox.py 27-40: login() called by the integration (__init__.py 33)
WbCallLogin(t) ==
    /\ client = "whitebox.py"
    /\ Free(t)
    /\ wb' = WbOwnSession(wb)
    /\ tasks' = [tasks EXCEPT ![t] = [op |-> "login", pc |-> "login_wait"]]
    /\ UNCHANGED <<now, access_token, access_token_expiry, refresh_token, last, request,
                   _unit_cache, seen, client, entity, units, coordinator_data>>

WbLoginResponse(t, resp) ==
    /\ client = "whitebox.py"
    /\ tasks[t].op = "login"
    /\ tasks[t].pc = "login_wait"
    /\ LET r == WbLogin(wb, resp) IN
       /\ wb' = r.wb
       /\ last' = [op |-> "login", result |-> FromOut(r.out)]
    /\ tasks' = [tasks EXCEPT ![t] = IdleTask]
    /\ UNCHANGED <<now, access_token, access_token_expiry, refresh_token, request,
                   _unit_cache, seen, client, entity, units, coordinator_data>>

WbCallFetchUnits(t) ==
    /\ client = "whitebox.py"
    /\ Free(t)
    /\ seen.started < MaxCalls
    /\ WbCommit(t, WbAfterGft(WbListCall, WbGftStart(wb, now)),
                [seen EXCEPT !.started = @ + 1,
                             !.overlap = @ \/ \E u \in Tasks : InFlight(u)])

WbTokenRenewed(t, resp) ==
    /\ tasks[t].op = "_fetch_units"
    /\ tasks[t].pc = "renew_wait"
    /\ WbCommit(t, WbAfterGft(tasks[t], WbGftAfterRenew(wb, resp)), seen)

WbTokenLoggedIn(t, resp) ==
    /\ tasks[t].op = "_fetch_units"
    /\ tasks[t].pc = "login_wait"
    /\ WbCommit(t, WbAfterGft(tasks[t], WbGftAfterLogin(wb, resp)), seen)

WbListResponse(t, resp) ==
    /\ tasks[t].op = "_fetch_units"
    /\ tasks[t].pc = "list_wait"
    /\ WbCommit(t, WbListReceived(wb, tasks[t], resp, now), seen)

WbDetailResponse(t, resp) ==
    /\ tasks[t].op = "_fetch_units"
    /\ tasks[t].pc = "detail_wait"
    /\ WbCommit(t, WbDetailReceived(wb, tasks[t], resp, now), seen)

(***************************************************************************)
(* The unit listing of both clients.  /login and /renew answer with a      *)
(* refusal or with tokens expiring at one of the times exps.               *)
(***************************************************************************)
GrantedLogins(exps) ==
    {Body([code |-> "ERR"])}
    \cup {Body(Envelope("OK", [accessToken |-> Jwt(1, e),
                               refreshToken |-> [token |-> RefreshTokenString,
                                                 expiresAt |-> MaxTime + 1]])) : e \in exps}
GrantedRenewals(exps) ==
    {Body([code |-> "ERR"])} \cup {Body(Envelope("OK", [accessToken |-> Jwt(1, e)])) : e \in exps}

InitUnits ==
    /\ Constructed
    /\ request = NoRequest
    /\ client \in Clients

\* the steps of a listing made while the access token of the session is valid
Listing(exps) ==
    \/ \E t \in Callers, f \in BOOLEAN : CallFetchUserUnits(t, f)
    \/ \E t \in Callers : \E resp \in GrantedLogins(exps) : ListTokenLoggedIn(t, resp)
    \/ \E t \in Callers : \E resp \in ListResponses : ListResponse(t, resp)
    \/ \E t \in Callers, i \in Kids : \E resp \in DetailResponses : DetailResponse(t, i, resp)
    \/ \E t \in Callers : GatherDone(t)
    \/ \E t \in Callers : WbCallLogin(t)
    \/ \E t \in Callers : \E resp \in GrantedLogins(exps) : WbLoginResponse(t, resp)
    \/ \E t \in Callers : WbCallFetchUnits(t)
    \/ \E t \in Callers : \E resp \in ListResponses : WbListResponse(t, resp)
    \/ \E t \in Callers : \E resp \in DetailResponses : WbDetailResponse(t, resp)

\* the steps a listing takes to replace an expired access token
Reauthenticating(exps) ==
    \/ \E t \in Callers : \E resp \in GrantedRenewals(exps) : ListTokenRenewed(t, resp)
    \/ \E t \in Callers, i \in Kids : \E resp \in GrantedRenewals(exps) :
           UnitTokenRenewed(t, i, resp)
    \/ \E t \in Callers, i \in Kids : \E resp \in GrantedLogins(exps) :
           UnitTokenLoggedIn(t, i, resp)
    \/ \E t \in Callers : \E resp \in GrantedRenewals(exps) : WbTokenRenewed(t, resp)
    \/ \E t \in Callers : \E resp \in GrantedLogins(exps) : WbTokenLoggedIn(t, resp)

\* Listings within the lifetime of the tokens of one session: the clock does not
\* reach an expiry, so no listing has to replace a token it once held.
NextUnits == Listing({MaxTime + 1})

SpecUnits == InitUnits /\ [][NextUnits]_vars

\* Listings across token expiries.
NextUnitsExpiring ==
    \/ Tick
    \/ Listing(Expiries(now))
    \/ Reauthenticating(Expiries(now))

SpecUnitsExpiring == InitUnits /\ [][NextUnitsExpiring]_vars

\* The whitebox.py client alone, across token expiries: the integration logs in
\* (__init__.py 33) and lists the units while the clock advances.
InitWhitebox ==
    /\ Constructed
    /\ request = NoRequest
    /\ client = "whitebox.py"

NextWhitebox ==
    \/ Tick
    \/ \E t \in Callers : WbCallLogin(t)
    \/ \E t \in Callers : \E resp \in GrantedLogins(Expiries(now)) : WbLoginResponse(t, resp)
    \/ \E t \in Callers : WbCallFetchUnits(t)
    \/ \E t \in Callers : \E resp \in GrantedRenewals(Expiries(now)) : WbTokenRenewed(t, resp)
    \/ \E t \in Callers : \E resp \in GrantedLogins(Expiries(now)) : WbTokenLoggedIn(t, resp)
    \/ \E t \in Callers : \E resp \in ListResponses : WbListResponse(t, resp)
    \/ \E t \in Callers : \E resp \in DetailResponses : WbDetailResponse(t, resp)

SpecWhitebox == InitWhitebox /\ [][NextWhitebox]_vars

(***************************************************************************)
(* WhiteboxApi._fetch_scheduled_test_results and _parse_scheduled_test_result*)
(* (api.py 211-272)                                                        *)
(***************************************************************************)
MaxRows == 3
MaxClock == 2
NumValues == 2

\* "%Y-%m-%d" of a clock value, and the datetime strptime makes of a date and a
\* time of day; BadClock is a time of day strptime rejects
Today(t) == [kind |-> "date", day |-> t]
BadClock == 0 - 1
Timestamp(date, clock) == [kind |-> "datetime", day |-> date.day, clock |-> clock]
Earlier(a, b) == a.day < b.day \/ (a.day = b.day /\ a.clock < b.clock)

\* api.py 257-272
_parse_scheduled_test_result(data, target_date) ==
    IF ~Has(data, "time") THEN Err("KeyError")
    ELSE IF data.time = BadClock THEN Err("ValueError")
    ELSE IF ~Has(data, "metricValue") THEN Err("KeyError")
    ELSE IF ~Has(data, "target") THEN Err("KeyError")
    ELSE Ok([timestamp |-> Timestamp(target_date, data.time),
             value |-> data.metricValue,
             target |-> data.target])

RECURSIVE ParseRows_SkipBad(_, _)
ParseRows_SkipBad(rows, target_date) ==
    IF rows = <<>> THEN Ok(<<>>)
    ELSE LET first == _parse_scheduled_test_result(Head(rows), target_date)
             rest == ParseRows_SkipBad(Tail(rows), target_date)
         IN  IF ~first.ok THEN rest ELSE Ok(<<first.val>> \o rest.val)

\* the list comprehension of api.py 241-244: the parsed rows, or the exception of
\* the first row that does not parse
RECURSIVE ParseRows(_, _)
ParseRows(rows, target_date) ==
    IF rows = <<>> THEN Ok(<<>>)
    ELSE LET first == _parse_scheduled_test_result(Head(rows), target_date) IN
         IF ~first.ok THEN first
         ELSE LET rest == ParseRows(Tail(rows), target_date) IN
              IF ~rest.ok THEN rest ELSE Ok(<<first.val>> \o rest.val)

\* sorted(..., key=lambda result: result["timestamp"]): ascending and stable
InsertByTimestamp(l, x) ==
    LET n == Cardinality({i \in DOMAIN l : ~Earlier(x.timestamp, l[i].timestamp)})
    IN  SubSeq(l, 1, n) \o <<x>> \o SubSeq(l, n + 1, Len(l))
RECURSIVE sorted(_)
sorted(l) ==
    IF l = <<>> THEN <<>>
    ELSE InsertByTimestamp(sorted(SubSeq(l, 1, Len(l) - 1)), l[Len(l)])

reversed_Kept(l) == l

\* reversed(...) of api.py 238-247
reversed(l) == [i \in 1..Len(l) |-> l[Len(l) + 1 - i]]

\* api.py 238-255, from the data of the response on
ScheduledTests(metric, data, target_date) ==
    IF data = None THEN Raise("TypeError")
    ELSE IF ~Has(data, "results") THEN Raise("KeyError")
    ELSE LET parsed == ParseRows(data.results, target_date) IN
         IF ~parsed.ok THEN Raise(parsed.exc)
         ELSE IF ~Has(data, "metricMetadata") \/ ~Has(data.metricMetadata, "metricUnit")
         THEN Raise("KeyError")
         ELSE IF ~Has(data, "dataUsage") \/ ~Has(data.dataUsage, "totalBytesProcessed")
         THEN Raise("KeyError")
         ELSE Return([metric_key |-> metric,
                      results |-> reversed(sorted(parsed.val)),
                      metric_unit |-> data.metricMetadata.metricUnit,
                      total_bytes_processed |-> data.dataUsage.totalBytesProcessed])

\* api.py 232-255, from the response on
_fetch_scheduled_test_results(metric, target_date, resp) ==
    LET r == RequestOutcome("helpers.py", resp) IN
    IF r.kind = "raise" THEN r ELSE ScheduledTests(metric, r.value, target_date)

\* GET /{unit_id}/scheduled_tests_daily
Metrics == <<"httpgetmt", "httppostmt">>
WireRows ==
    {[time |-> c, metricValue |-> v, target |-> Str("host")] :
         c \in 0..MaxClock, v \in 1..NumValues}
    \cup {[time |-> BadClock, metricValue |-> 1, target |-> Str("host")],
          [time |-> 0, metricValue |-> 1],
          [time |-> 0, target |-> Str("host")],
          [metricValue |-> 1, target |-> Str("host")]}
TestsData(rows) ==
    [results |-> rows, metricMetadata |-> [metricUnit |-> Str("bps")],
     dataUsage |-> [totalBytesProcessed |-> 0]]

\* one _fetch_scheduled_test_results call on a response of up to MaxRows rows
InitSort ==
    /\ Constructed
    /\ client = "api.py"
    /\ request \in [state : {"called"}, metric : {Metrics[1], Metrics[2]},
                    target_date : {Today(now)},
                    resp : {Body(Envelope("OK", TestsData(rows))) :
                                rows \in SeqsUpTo(WireRows, MaxRows)}]

FetchScheduledTestResults ==
    /\ request.state = "called"
    /\ request' = [state |-> "done", metric |-> request.metric,
                   target_date |-> request.target_date, resp |-> request.resp,
                   made |-> _fetch_scheduled_test_results(request.metric,
                                                          request.target_date,
                                                          request.resp)]
    /\ UNCHANGED <<now, access_token, access_token_expiry, refresh_token, tasks, last,
                   _unit_cache, seen, client, entity, wb, units, coordinator_data>>

NextSort == FetchScheduledTestResults

SpecSort == InitSort /\ [][NextSort]_vars

(***************************************************************************)
(* WhiteboxApi.fetch_scheduled_unit_tests (api.py 166-202).  got holds what *)
(* the two _fetch_scheduled_test_results coroutines of the gather gave, in *)
(* the order of metric_list.                                               *)
(***************************************************************************)
MetricIds == DOMAIN Metrics

\* api.py 174-177
TestsCall(unit_id, target_date, t) ==
    [op |-> "fetch_scheduled_unit_tests", pc |-> "start", h |-> NewCall,
     unit_id |-> unit_id,
     date |-> IF target_date = None THEN Today(t) ELSE target_date,
     token |-> None, got |-> [m \in MetricIds |-> NoResult], result |-> NoResult]

TestsAfterGft_TokenPerRequest(c, g) ==
    IF g.pc = "returned"
    THEN IF g.res.kind = "return"
         THEN [c EXCEPT !.pc = "metrics", !.h = NewCall, !.token = None]
         ELSE [c EXCEPT !.pc = "done", !.h = NewCall, !.result = g.res]
    ELSE [c EXCEPT !.pc = g.pc, !.h = g.h]

\* api.py 179-193: with the token, both metric requests are sent
TestsAfterGft(c, g) ==
    IF g.pc = "returned"
    THEN IF g.res.kind = "return"
         THEN [c EXCEPT !.pc = "metrics", !.h = NewCall, !.token = g.res.value]
         ELSE [c EXCEPT !.pc = "done", !.h = NewCall, !.result = g.res]
    ELSE [c EXCEPT !.pc = g.pc, !.h = g.h]

\* api.py 181-194: the dict comprehension over the results of the gather
MetricResults(tests) ==
    [k \in {tests[i].metric_key : i \in DOMAIN tests} |->
        tests[CHOOSE i \in DOMAIN tests :
                  /\ tests[i].metric_key = k
                  /\ \A j \in DOMAIN tests : tests[j].metric_key = k => j <= i]]

ScheduledUnitTests_Swapped(target_date, metric_results) ==
    IF ~Has(metric_results, "httpgetmt") \/ ~Has(metric_results, "httppostmt")
    THEN Raise("KeyError")
    ELSE Return([date |-> target_date,
                 httpgetmt |-> metric_results["httppostmt"],
                 httppostmt |-> metric_results["httpgetmt"]])

\* api.py 196-202
ScheduledUnitTests(target_date, metric_results) ==
    IF ~Has(metric_results, "httpgetmt") \/ ~Has(metric_results, "httppostmt")
    THEN Raise("KeyError")
    ELSE Return([date |-> target_date,
                 httpgetmt |-> metric_results["httpgetmt"],
                 httppostmt |-> metric_results["httppostmt"]])

\* api.py 183-202, from the response to the request for Metrics[m] on: gather
\* raises the first exception, or returns the results in the order of metric_list
TestsAfterMetric(c, m, resp) ==
    LET r == _fetch_scheduled_test_results(Metrics[m], c.date, resp)
        c1 == [c EXCEPT !.got[m] = r]
    IN  IF r.kind = "raise" THEN [c1 EXCEPT !.pc = "done", !.result = r]
        ELSE IF \A i \in MetricIds : c1.got[i].kind = "return"
        THEN [c1 EXCEPT !.pc = "done",
                        !.result = ScheduledUnitTests(
                                       c.date,
                                       MetricResults([i \in MetricIds |-> c1.got[i].value]))]
        ELSE c1

\* what the caller of a completed fetch_scheduled_unit_tests got
TestsEntry(c) ==
    [op |-> c.op, unit_id |-> c.unit_id, date |-> c.date, token |-> c.token,
     got |-> c.got, result |-> c.result]

TestsCommit(t, a, c) ==
    /\ SetAuth(a)
    /\ IF c.pc = "done"
       THEN /\ tasks' = [tasks EXCEPT ![t] = IdleTask]
            /\ last' = TestsEntry(c)
       ELSE /\ tasks' = [tasks EXCEPT ![t] = c]
            /\ UNCHANGED last
    /\ UNCHANGED <<now, request, _unit_cache, seen, client, entity, wb, units, coordinator_data>>

CallFetchScheduledUnitTests(t, unit_id, target_date) ==
    /\ client = "api.py"
    /\ Free(t)
    /\ LET g == GftStart(Auth, now)
       IN TestsCommit(t, g.auth, TestsAfterGft(TestsCall(unit_id, target_date, now), g))

TestsTokenRenewed(t, resp) ==
    /\ tasks[t].op = "fetch_scheduled_unit_tests"
    /\ tasks[t].pc = "renew_wait"
    /\ LET g == GftAfterRenew(Auth, tasks[t].h, resp)
       IN TestsCommit(t, g.auth, TestsAfterGft(tasks[t], g))

TestsTokenLoggedIn(t, resp) ==
    /\ tasks[t].op = "fetch_scheduled_unit_tests"
    /\ tasks[t].pc = "login_wait"
    /\ LET g == GftAfterLogin(Auth, tasks[t].h, resp)
       IN TestsCommit(t, g.auth, TestsAfterGft(tasks[t], g))

MetricResponse(t, m, resp) ==
    /\ tasks[t].op = "fetch_scheduled_unit_tests"
    /\ tasks[t].pc = "metrics"
    /\ tasks[t].got[m] = NoResult
    /\ TestsCommit(t, Auth, TestsAfterMetric(tasks[t], m, resp))

\* the rows of the responses to the metric requests
SomeRows ==
    {[time |-> c, metricValue |-> c + 1, target |-> Str("host")] : c \in 0..MaxClock}
MetricResponses ==
    {Body([code |-> "ERR"]), Body(Envelope("OK", EmptyDict))}
    \cup {Body(Envelope("OK", TestsData(<<row>>))) : row \in SomeRows}
TargetDates == {None} \cup {Today(d) : d \in Times}

NextTests ==
    \/ Tick
    \/ \E t \in Callers, k \in UnitIds, d \in TargetDates :
           CallFetchScheduledUnitTests(t, k, d)
    \/ \E t \in Callers : \E resp \in GrantedRenewals(Expiries(now)) :
           TestsTokenRenewed(t, resp)
    \/ \E t \in Callers : \E resp \in GrantedLogins(Expiries(now)) :
           TestsTokenLoggedIn(t, resp)
    \/ \E t \in Callers, m \in MetricIds : \E resp \in MetricResponses :
           MetricResponse(t, m, resp)

SpecTests == Init /\ [][NextTests]_vars

(***************************************************************************)
(* WhiteboxApi.fetch_all_unit_updates (api.py 69-103) and                  *)
(* WhitebooxCoordinator._async_update_data (sensor.py 111-158).  Both await *)
(* fetch_user_units (inner) and then gather one fetch_scheduled_unit_tests *)
(* per unit (ms); requests counts the requests the call has sent, refused  *)
(* tells whether one of them was answered with a non-success envelope,     *)
(* denied whether its login was.                                           *)
(***************************************************************************)
UpdCall(op) ==
    [op |-> op, pc |-> "units", inner |-> ListCall(FALSE), details |-> <<>>, ms |-> <<>>,
     exc |-> NoResult, requests |-> 0, refused |-> FALSE, denied |-> FALSE]

NonOk(resp) == resp.net = "ok" /\ ~(Has(resp.body, "code") /\ resp.body.code = "OK")

\* api.py 78-83: the dict comprehension over the (unit_id, measurement) pairs
MeasurementsByUnit(ms) ==
    [k \in {ms[u].unit_id : u \in DOMAIN ms} |->
        ms[CHOOSE u \in DOMAIN ms :
               /\ ms[u].unit_id = k
               /\ \A v \in DOMAIN ms : ms[v].unit_id = k => v <= u].result.value]

\* the last element of l whose unit_id is k
LastOf(l, k) ==
    l[CHOOSE i \in DOMAIN l : /\ l[i].unit_id = k
                              /\ \A j \in DOMAIN l : l[j].unit_id = k => j <= i]

\* api.py 95-103: the mapping built from self.units as it is when the gather is over
UnitUpdates(ul, ms) ==
    LET measurements == MeasurementsByUnit(ms) IN
    IF \E i \in DOMAIN ul : ul[i].unit_id \notin DOMAIN measurements THEN Raise("KeyError")
    ELSE Return([k \in {ul[i].unit_id : i \in DOMAIN ul} |->
                    [unit |-> LastOf(ul, k), measurements |-> measurements[k]]])

\* sensor.py 135-141: WhiteboxData over WhiteboxUnitData(details, tests)
WhiteboxData(details, ms) ==
    Return([units |-> [k \in {details[i].unit_id : i \in DOMAIN details} |->
                          LET i == CHOOSE i \in DOMAIN details :
                                       /\ details[i].unit_id = k
                                       /\ \A j \in DOMAIN details :
                                              details[j].unit_id = k => j <= i
                          IN  [details |-> details[i],
                               latest_tests |-> ms[i].result.value]]])

\* what the caller of a completed call got
UpdEntry(p, res) ==
    [op |-> p.op, listed |-> p.inner.listed, requests |-> p.requests,
     refused |-> p.refused, denied |-> p.denied, result |-> res]

\* the first of the coroutines of the second gather that has raised
FirstFailed(ms) ==
    IF \E u \in DOMAIN ms : ms[u].result.kind = "raise"
    THEN ms[CHOOSE u \in DOMAIN ms :
                /\ ms[u].result.kind = "raise"
                /\ \A v \in DOMAIN ms : ms[v].result.kind = "raise" => u <= v].result
    ELSE NoResult

\* api.py 74-82, sensor.py 128-133: with the units, one fetch_scheduled_unit_tests
\* per unit starts; each gets the token and sends its two metric requests
UpdStartTests(p, details, a, t) ==
    LET ms == [u \in DOMAIN details |->
                  TestsAfterGft(TestsCall(details[u].unit_id, None, t), GftStart(a, t))]
    IN  [p EXCEPT !.pc = "tests", !.details = details, !.ms = ms,
                  !.exc = FirstFailed(ms),
                  !.requests = @ + 2 * Cardinality({u \in DOMAIN ms : ms[u].pc = "metrics"})]

\* api.py 95-103, sensor.py 135-141
UpdResult(p, ul) ==
    IF p.op = "fetch_all_unit_updates" THEN UnitUpdates(ul, p.ms)
    ELSE WhiteboxData(p.details, p.ms)

\* DataUpdateCoordinator: a cycle that returns publishes its snapshot, a cycle that
\* raises leaves the snapshot of the last successful cycle in place
Published(old, p, res) ==
    IF p.op = "_async_update_data" /\ res.kind = "return" THEN res.value ELSE old

\* the call goes on as p1, or completes with res
UpdCommit(t, a, cache, ul, p1, res, sends) ==
    /\ SetAuth(a)
    /\ _unit_cache' = cache
    /\ units' = ul
    /\ IF res = NoResult
       THEN /\ tasks' = [tasks EXCEPT ![t] = p1]
            /\ UNCHANGED <<last, coordinator_data>>
            /\ seen' = [seen EXCEPT !.details = [k \in UnitIds |-> @[k] + sends[k]]]
       ELSE /\ tasks' = [tasks EXCEPT ![t] =
                            IF p1.inner.pc = "gather" /\ Finished(p1.inner) # IdleTask
                            THEN [p1 EXCEPT !.pc = "orphans", !.inner = Finished(p1.inner)]
                            ELSE IdleTask]
            /\ last' = UpdEntry(p1, res)
            /\ coordinator_data' = Published(coordinator_data, p1, res)
            /\ seen' = [seen EXCEPT !.details = [k \in UnitIds |-> @[k] + sends[k]],
                                    !.failed = @ \/ res.kind = "raise"]
    /\ UNCHANGED <<now, request, client, entity, wb>>

\* the units are in: api.py 74 stores them in self.units
UpdWithUnits(p, details, a, t, ul) ==
    LET ul1 == IF p.op = "fetch_all_unit_updates" THEN details ELSE ul
        p1 == UpdStartTests([p EXCEPT !.inner.pc = "done"], details, a, t)
    IN  IF details = <<>> THEN [task |-> p1, res |-> UpdResult(p1, ul1), units |-> ul1]
        ELSE [task |-> p1, res |-> NoResult, units |-> ul1]

\* a step of the fetch_user_units the call awaits
UpdAfterInner(t, a, p, st) ==
    LET listing == st.task # IdleTask /\ st.task.pc = "gather"
        sends == IF listing THEN NewDetails(<<>>, st.task.kids) ELSE NoDetails
        sent == IF listing
                THEN Cardinality({i \in DOMAIN st.task.kids :
                                      st.task.kids[i].pc = "detail_wait"})
                ELSE IF st.task.pc = "list_wait" THEN 1 ELSE 0
        p1 == [p EXCEPT !.inner = IF st.task = IdleTask THEN [@ EXCEPT !.pc = "done"]
                                  ELSE st.task,
                        !.requests = @ + sent]
    IN  IF st.entry = NoResult THEN UpdCommit(t, a, _unit_cache, units, p1, NoResult, sends)
        ELSE IF st.entry.result.kind = "raise"
        THEN UpdCommit(t, a, _unit_cache, units,
                       [p1 EXCEPT !.inner.listed = st.entry.listed], st.entry.result,
                       NoDetails)
        ELSE LET w == UpdWithUnits([p1 EXCEPT !.inner.listed = st.entry.listed],
                                   st.entry.result.value, a, now, units)
             IN  UpdCommit(t, a, _unit_cache, w.units, w.task, w.res, NoDetails)

UpdStart(t, op) ==
    /\ client = "api.py"
    /\ Free(t)
    /\ seen.started < MaxCalls
    /\ LET g == GftStart(Auth, now)
           st == ParentAfterGft(ListCall(FALSE), g)
       IN  /\ SetAuth(g.auth)
           /\ IF st.entry = NoResult
              THEN /\ tasks' = [tasks EXCEPT ![t] =
                                   [UpdCall(op) EXCEPT !.inner = st.task,
                                                       !.requests = IF st.task.pc = "list_wait"
                                                                    THEN 1 ELSE 0]]
                   /\ UNCHANGED last
              ELSE /\ tasks' = [tasks EXCEPT ![t] = IdleTask]
                   /\ last' = UpdEntry(UpdCall(op), st.entry.result)
           /\ seen' = [seen EXCEPT !.started = @ + 1,
                                   !.overlap = @ \/ \E u \in Tasks : InFlight(u),
                                   !.failed = @ \/ st.entry # NoResult]
    /\ UNCHANGED <<now, request, _unit_cache, client, entity, wb, units, coordinator_data>>

CallFetchAllUnitUpdates(t) == UpdStart(t, "fetch_all_unit_updates")

\* a polling cycle of the coordinator
CallAsyncUpdateData(t) == UpdStart(t, "_async_update_data")

UpdOps == {"fetch_all_unit_updates", "_async_update_data"}

UpdListTokenLoggedIn(t, resp) ==
    /\ tasks[t].op \in UpdOps
    /\ tasks[t].pc = "units"
    /\ tasks[t].inner.pc = "login_wait"
    /\ LET g == GftAfterLogin(Auth, tasks[t].inner.h, resp)
           st == ParentAfterGft(tasks[t].inner, g)
       IN  UpdAfterInner(t, g.auth, [tasks[t] EXCEPT !.denied = NonOk(resp)], st)

UpdListResponse(t, resp) ==
    /\ tasks[t].op \in UpdOps
    /\ tasks[t].pc = "units"
    /\ tasks[t].inner.pc = "list_wait"
    /\ LET st == ListReceived(tasks[t].inner, resp, Auth, now, _unit_cache)
       IN  UpdAfterInner(t, Auth, [tasks[t] EXCEPT !.refused = @ \/ NonOk(resp)], st)

\* The backend answers a request with a refusal or with what it holds for the unit
\* (and metric) the request names.
BackendRow(k, m) ==
    [time |-> 0, metricValue |-> k + NumUnits * (m - 1), target |-> Str("host")]
MetricAnswers(k, m) ==
    {Body([code |-> "ERR"]), Body(Envelope("OK", TestsData(<<BackendRow(k, m)>>)))}
DetailAnswers(k) ==
    {Body([code |-> "ERR"]), Body(Envelope("OK", [id |-> k, front_name |-> Str("a")]))}
UpdMetricResponses == UNION {MetricAnswers(k, m) : k \in UnitIds, m \in MetricIds}

\* a detail response reaches a _get_unit of the call, or of a call that has failed
UpdDetailResponse(t, i, resp) ==
    /\ tasks[t].op \in UpdOps
    /\ tasks[t].pc \in {"units", "orphans"}
    /\ tasks[t].inner.pc \in {"gather", "orphans"}
    /\ i \in DOMAIN tasks[t].inner.kids
    /\ tasks[t].inner.kids[i].pc = "detail_wait"
    /\ resp \in DetailAnswers(tasks[t].inner.kids[i].unit_id)
    /\ LET st == GetUnitStore(_unit_cache, tasks[t].inner.kids[i], resp, now)
           inner == WithKid(tasks[t].inner, i, st.kid)
       IN  /\ tasks' = [tasks EXCEPT ![t] =
                           IF inner = IdleTask THEN IdleTask
                           ELSE [@ EXCEPT !.inner = inner,
                                          !.refused = @ \/ NonOk(resp)]]
           /\ _unit_cache' = st.cache
    /\ UNCHANGED <<now, access_token, access_token_expiry, refresh_token, last, request,
                   seen, client, entity, wb, units, coordinator_data>>

\* the gather of fetch_user_units is over: api.py 116-123, then api.py 74-82 or
\* sensor.py 128-133
UpdUnitsListed(t) ==
    /\ tasks[t].op \in UpdOps
    /\ tasks[t].pc = "units"
    /\ tasks[t].inner.pc = "gather"
    /\ LET p == tasks[t] IN
       \/ /\ p.inner.exc # NoResult
          /\ UpdCommit(t, Auth, _unit_cache, units, p, p.inner.exc, NoDetails)
       \/ /\ p.inner.exc = NoResult
          /\ \A i \in DOMAIN p.inner.kids : KidDone(p.inner.kids[i])
          /\ LET w == UpdWithUnits(p, GatherResult(p.inner.kids), Auth, now, units)
             IN  UpdCommit(t, Auth, _unit_cache, w.units, w.task, w.res, NoDetails)

UpdMetricResponse(t, u, m, resp) ==
    /\ tasks[t].op \in UpdOps
    /\ tasks[t].pc = "tests"
    /\ u \in DOMAIN tasks[t].ms
    /\ tasks[t].ms[u].pc = "metrics"
    /\ tasks[t].ms[u].got[m] = NoResult
    \* once the gather has raised, what its other coroutines get is dropped
    /\ tasks[t].exc = NoResult
    /\ resp \in MetricAnswers(tasks[t].ms[u].unit_id, m)
    /\ LET c == TestsAfterMetric(tasks[t].ms[u], m, resp)
           p1 == [tasks[t] EXCEPT !.ms[u] = c,
                                  !.refused = @ \/ NonOk(resp),
                                  !.exc = IF @ = NoResult /\ c.result.kind = "raise"
                                          THEN c.result ELSE @]
       IN  UpdCommit(t, Auth, _unit_cache, units, p1, NoResult, NoDetails)

UpdGathered_Partial(t) ==
    /\ tasks[t].op \in UpdOps
    /\ tasks[t].pc = "tests"
    /\ LET p == tasks[t]
           kept == SelectSeq([u \in DOMAIN p.ms |-> [details |-> p.details[u], tests |-> p.ms[u]]],
                             LAMBDA x : x.tests.result.kind = "return")
       IN
       \/ /\ p.exc # NoResult
          /\ UpdCommit(t, Auth, _unit_cache, units, p,
                       WhiteboxData([u \in DOMAIN kept |-> kept[u].details],
                                    [u \in DOMAIN kept |-> kept[u].tests]), NoDetails)
       \/ /\ p.exc = NoResult
          /\ \A u \in DOMAIN p.ms : p.ms[u].pc = "done"
          /\ UpdCommit(t, Auth, _unit_cache, units, p, UpdResult(p, units), NoDetails)

\* the gather of the unit tests is over: api.py 80-103, sensor.py 131-141
UpdGathered(t) ==
    /\ tasks[t].op \in UpdOps
    /\ tasks[t].pc = "tests"
    /\ LET p == tasks[t] IN
       \/ /\ p.exc # NoResult
          /\ UpdCommit(t, Auth, _unit_cache, units, p, p.exc, NoDetails)
       \/ /\ p.exc = NoResult
          /\ \A u \in DOMAIN p.ms : p.ms[u].pc = "done"
          /\ UpdCommit(t, Auth, _unit_cache, units, p, UpdResult(p, units), NoDetails)

\* sensor.py 120: async_timeout.timeout(10) cancels the cycle at its suspension,
\* and with it the coroutines it awaits
Timeout(t) ==
    /\ tasks[t].op = "_async_update_data"
    /\ tasks[t].pc \in {"units", "tests"}
    /\ UpdCommit(t, Auth, _unit_cache, units, [tasks[t] EXCEPT !.inner.pc = "cancelled"],
                 Raise("TimeoutError"), NoDetails)

UpdSteps(ts) ==
    \/ \E t \in ts : \E resp \in GrantedLogins({MaxTime + 1}) : UpdListTokenLoggedIn(t, resp)
    \/ \E t \in ts : \E resp \in ListResponses : UpdListResponse(t, resp)
    \/ \E t \in ts, i \in Kids : \E resp \in DetailResponses : UpdDetailResponse(t, i, resp)
    \/ \E t \in ts : UpdUnitsListed(t)
    \/ \E t \in ts, u \in Kids, m \in MetricIds : \E resp \in UpdMetricResponses :
           UpdMetricResponse(t, u, m, resp)
    \/ \E t \in ts : UpdGathered(t)

\* fetch_all_unit_updates called, by tasks that may overlap, while the access token of
\* the session is valid
NextUpdates ==
    \/ \E t \in Tasks : CallFetchAllUnitUpdates(t)
    \/ UpdSteps(Tasks)

SpecUpdates == Init /\ [][NextUpdates]_vars

\* the task of the coordinator: its polling cycles follow one another
Poller == CHOOSE t \in Tasks : TRUE

\* polling cycles of the coordinator while the access token of the session is valid
NextCoordinator ==
    \/ CallAsyncUpdateData(Poller)
    \/ UpdSteps({Poller})
    \/ Timeout(Poller)

SpecCoordinator == Init /\ [][NextCoordinator]_vars

(***************************************************************************)
(* MetricEntity of sensor.py: one sensor of a unit and a metric, created   *)
(* from the snapshot of the first refresh and told of every later one.     *)
(***************************************************************************)
\* what the backend holds for metric m of unit k when it holds n results: the
\* oldest first, each with a value of its own
RecentRows(k, m, n) ==
    [i \in 1..n |-> [time |-> i - 1,
                     metricValue |-> k + NumUnits * (m - 1)
                                         + NumUnits * Len(Metrics) * (i - 1),
                     target |-> Str("host")]]

\* the ScheduledUnitTests of unit k (api.py 174-202) when the backend holds n[m]
\* results for Metrics[m]
SnapshotTests(k, n) ==
    ScheduledUnitTests(Today(0),
        [httpgetmt |-> ScheduledTests(Metrics[1], TestsData(RecentRows(k, 1, n[1])),
                                      Today(0)).value,
         httppostmt |-> ScheduledTests(Metrics[2], TestsData(RecentRows(k, 2, n[2])),
                                       Today(0)).value]).value

\* the snapshots a polling cycle can publish (sensor.py 131-141): any of the units,
\* each with up to MaxListLen results per metric
Snapshots ==
    {WhiteboxData([i \in 1..Len(ks) |->
                       UnitDetails(ks[i], [id |-> ks[i], front_name |-> Str("a")], 0)],
                  [i \in 1..Len(ks) |->
                       [result |-> Return(SnapshotTests(ks[i], ns[ks[i]]))]]).value :
         ks \in {q \in SeqsUpTo(UnitIds, NumUnits) :
                    \A i, j \in DOMAIN q : i # j => q[i] # q[j]},
         ns \in [UnitIds -> [MetricIds -> 0..MaxListLen]]}

\* sensor.py 236-246
_get_test_data(metric, data) ==
    IF data = None THEN None
    ELSE Get(data, metric, None)

\* sensor.py 248-255
_get_latest_result(test_data) ==
    IF test_data = None THEN None
    ELSE IF Len(test_data.results) = 0 THEN None
    ELSE test_data.results[1]

\* sensor.py 194-231; wrote: whether the last callback called async_write_ha_state
MetricEntity(data, unit_id, metric) ==
    LET test_result == _get_latest_result(
                           _get_test_data(metric, data.units[unit_id].latest_tests))
    IN  [unit_id |-> unit_id,
         metric |-> metric,
         _attr_native_value |-> IF test_result = None THEN None ELSE test_result.value,
         wrote |-> FALSE]

_handle_coordinator_update_ClearsWhenEmpty(e, data) ==
    IF e.unit_id \notin DOMAIN data.units THEN [e EXCEPT !.wrote = FALSE]
    ELSE LET unit == data.units[e.unit_id] IN
         IF ~Has(unit.latest_tests, e.metric) THEN [e EXCEPT !.wrote = FALSE]
         ELSE LET test == unit.latest_tests[e.metric] IN
              IF Len(test.results) = 0
              THEN [e EXCEPT !._attr_native_value = None, !.wrote = TRUE]
              ELSE [e EXCEPT !._attr_native_value = test.results[1].value,
                             !.wrote = TRUE]

\* sensor.py 266-291
_handle_coordinator_update(e, data) ==
    IF e.unit_id \notin DOMAIN data.units THEN [e EXCEPT !.wrote = FALSE]
    ELSE LET unit == data.units[e.unit_id] IN
         IF ~Has(unit.latest_tests, e.metric) THEN [e EXCEPT !.wrote = FALSE]
         ELSE LET test == unit.latest_tests[e.metric] IN
              IF Len(test.results) = 0 THEN [e EXCEPT !.wrote = FALSE]
              ELSE [e EXCEPT !._attr_native_value = test.results[1].value,
                             !.wrote = TRUE]

\* sensor.py 30-67: after the first refresh, an entity per unit of the snapshot and
\* per metric
InitEntity ==
    /\ now = 0
    /\ access_token = None
    /\ access_token_expiry = Unset
    /\ refresh_token = None
    /\ tasks = [t \in Tasks |-> IdleTask]
    /\ last = NoCall
    /\ request = NoRequest
    /\ _unit_cache = EmptyDict
    /\ seen = NothingSeen
    /\ client = "api.py"
    /\ wb = WbConstructed
    /\ units = <<>>
    /\ coordinator_data \in Snapshots
    /\ \E unit_id \in DOMAIN coordinator_data.units :
           \E m \in MetricIds :
               entity = MetricEntity(coordinator_data, unit_id, Metrics[m])

\* a polling cycle has published the snapshot d: the coordinator calls the entity back
CoordinatorRefreshed(d) ==
    /\ entity # None
    /\ coordinator_data' = d
    /\ entity' = _handle_coordinator_update(entity, d)
    /\ UNCHANGED <<now, access_token, access_token_expiry, refresh_token, tasks, last,
                   request, _unit_cache, seen, client, wb, units>>

NextEntity == \E d \in Snapshots : CoordinatorRefreshed(d)

SpecEntity == InitEntity /\ [][NextEntity]_vars

(***************************************************************************)
(* WhiteboxApi.fetch_unit_measurements of whitebox.py (180-201): one       *)
(* request per metric, one after the other, each with a token of its own.  *)
(***************************************************************************)
\* whitebox.py 180-187; i is the position of the loop of lines 189-199
WbMeasureCall(unit_id, metrics, t) ==
    [op |-> "fetch_unit_measurements", pc |-> "start", unit_id |-> unit_id,
     metrics |-> metrics, date |-> Today(t), i |-> 1, token |-> None,
     metric_results |-> EmptyDict]

\* what the caller of a completed fetch_unit_measurements got
WbMeasureEntry(p, res) ==
    [op |-> p.op, unit_id |-> p.unit_id, result |-> res]

WbMeasureStep(w, tk, entry) == [wb |-> w, task |-> tk, entry |-> entry]

\* whitebox.py 190-195: with the token, the request is sent on self._session
WbMeasureAfterGft(p, g) ==
    IF g.pc # "returned" THEN WbMeasureStep(g.wb, [p EXCEPT !.pc = g.pc], NoResult)
    ELSE IF g.res.kind = "raise" THEN WbMeasureStep(g.wb, IdleTask, WbMeasureEntry(p, g.res))
    ELSE IF g.wb._session = None
    THEN WbMeasureStep(g.wb, IdleTask, WbMeasureEntry(p, Raise("AttributeError")))
    ELSE WbMeasureStep(g.wb, [p EXCEPT !.pc = "measure_wait", !.token = g.res.value],
                       NoResult)

\* whitebox.py 189-201: the loop, from position p.i to its next suspension
WbMeasureLoop(w, p, t) ==
    IF p.i > Len(p.metrics)
    THEN WbMeasureStep(w, IdleTask, WbMeasureEntry(p, Return(p.metric_results)))
    ELSE WbMeasureAfterGft(p, WbGftStart(w, t))

SetItem(d, k, v) == [x \in DOMAIN d \cup {k} |-> IF x = k THEN v ELSE d[x]]

\* whitebox.py 190-199, from the response on
WbMeasureReceived(w, p, resp, t) ==
    LET r == RequestOutcome("whitebox.py", resp) IN
    IF r.kind = "raise" THEN WbMeasureStep(w, IdleTask, WbMeasureEntry(p, r))
    ELSE IF r.value = None
    THEN WbMeasureStep(w, IdleTask, WbMeasureEntry(p, Raise("TypeError")))
    ELSE IF ~Has(r.value, "results")
    THEN WbMeasureStep(w, IdleTask, WbMeasureEntry(p, Raise("KeyError")))
    ELSE IF Len(r.value.results) = 0 THEN WbMeasureLoop(w, [p EXCEPT !.i = @ + 1], t)
    ELSE IF ~Has(r.value.results[1], "metricValue")
    THEN WbMeasureStep(w, IdleTask, WbMeasureEntry(p, Raise("KeyError")))
    ELSE WbMeasureLoop(w, [p EXCEPT !.metric_results =
                                        SetItem(@, p.metrics[p.i],
                                                r.value.results[1].metricValue),
                                    !.i = @ + 1], t)

WbMeasureCommit(t, st) ==
    /\ wb' = st.wb
    /\ tasks' = [tasks EXCEPT ![t] = st.task]
    /\ last' = IF st.entry = NoResult THEN last ELSE st.entry
    /\ UNCHANGED <<now, access_token, access_token_expiry, refresh_token, request,
                   _unit_cache, seen, client, entity, units, coordinator_data>>

WbCallFetchUnitMeasurements(t, unit_id, metrics) ==
    /\ client = "whitebox.py"
    /\ Free(t)
    /\ WbMeasureCommit(t, WbMeasureLoop(wb, WbMeasureCall(unit_id, metrics, now), now))

\* whitebox.py 181 and 189: called without metrics, the loop iterates over None
WbCallFetchUnitMeasurementsNoMetrics(t, unit_id) ==
    /\ client = "whitebox.py"
    /\ Free(t)
    /\ WbMeasureCommit(t, WbMeasureStep(wb, IdleTask,
                                        WbMeasureEntry(WbMeasureCall(unit_id, None, now),
                                                       Raise("TypeError"))))

WbMeasureTokenRenewed(t, resp) ==
    /\ tasks[t].op = "fetch_unit_measurements"
    /\ tasks[t].pc = "renew_wait"
    /\ WbMeasureCommit(t, WbMeasureAfterGft(tasks[t], WbGftAfterRenew(wb, resp)))

WbMeasureTokenLoggedIn(t, resp) ==
    /\ tasks[t].op = "fetch_unit_measurements"
    /\ tasks[t].pc = "login_wait"
    /\ WbMeasureCommit(t, WbMeasureAfterGft(tasks[t], WbGftAfterLogin(wb, resp)))

WbMeasurementResponse(t, resp) ==
    /\ tasks[t].op = "fetch_unit_measurements"
    /\ tasks[t].pc = "measure_wait"
    /\ WbMeasureCommit(t, WbMeasureReceived(wb, tasks[t], resp, now))

\* the metric lists a caller passes, and the responses of
\* GET /{unit_id}/scheduled_tests_daily: up to MaxListLen rows in any order
MetricLists == SeqsUpTo({Metrics[m] : m \in MetricIds}, MaxListLen)
MeasurementResponses ==
    {Body([code |-> "ERR"])}
    \cup {Body(Envelope("OK", TestsData(rows))) : rows \in SeqsUpTo(SomeRows, MaxListLen)}

NextMeasurements ==
    \/ Tick
    \/ \E t \in Callers : WbCallLogin(t)
    \/ \E t \in Callers : \E resp \in GrantedLogins(Expiries(now)) : WbLoginResponse(t, resp)
    \/ \E t \in Callers, k \in UnitIds, ml \in MetricLists :
           WbCallFetchUnitMeasurements(t, k, ml)
    \/ \E t \in Callers, k \in UnitIds : WbCallFetchUnitMeasurementsNoMetrics(t, k)
    \/ \E t \in Callers : \E resp \in GrantedRenewals(Expiries(now)) :
           WbMeasureTokenRenewed(t, resp)
    \/ \E t \in Callers : \E resp \in GrantedLogins(Expiries(now)) :
           WbMeasureTokenLoggedIn(t, resp)
    \/ \E t \in Callers : \E resp \in MeasurementResponses : WbMeasurementResponse(t, resp)

SpecMeasurements == InitWhitebox /\ [][NextMeasurements]_vars

(***************************************************************************)
(* Claims about AuthManager, checked under SpecAuth                        *)
(***************************************************************************)
GftCompleted == last.op = "get_fresh_token"
GftReturned == GftCompleted /\ last.result.kind = "return"

\* the token string and the expiry the AuthManager holds, whichever of the
\* two shapes (ExpirableToken, or string plus access_token_expiry) stores them
HoldsFreshToken(a, t) ==
    /\ a.access_token # None
    /\ IF a.access_token.kind = "ExpirableToken"
       THEN t < a.access_token.expiry
       ELSE /\ a.access_token_expiry # Unset
            /\ _get_token_expiry(a.access_token) = Ok(a.access_token_expiry.t)
            /\ t < a.access_token_expiry.t
HeldTokenString(a) ==
    IF a.access_token.kind = "ExpirableToken" THEN a.access_token.token ELSE a.access_token

\* C1: whenever get_fresh_token returns normally, the value returned is the
\* token string of the stored access token and that token is not expired at
\* the moment of return.
C1_ReturnsValidToken ==
    GftReturned =>
        /\ last.stored # None
        /\ last.stored.kind = "ExpirableToken"
        /\ last.result.value = last.stored.token
        /\ ~is_expired(last.stored, last.now)

\* C2: when the stored access token is present and not expired, get_fresh_token
\* returns it, sends no request (neither /renew nor /login) and leaves the
\* token state unchanged.
C2_FastPath ==
    [][\A t \in Tasks :
        (CallGetFreshToken(t) /\ HoldsFreshToken(Auth, now)) =>
            /\ last'.op = "get_fresh_token"
            /\ last'.result = Return(HeldTokenString(Auth))
            /\ last'.h.sent = <<>>
            /\ tasks'[t].pc = "idle"
            /\ UNCHANGED <<access_token, access_token_expiry, refresh_token>>]_vars

\* C3: with no valid access token, every failed refresh attempt (also the one
\* that sends nothing because the refresh token is absent or expired) is
\* followed by a login attempt, and CouldNotAuthenticate is raised only when
\* both the refresh and the login of that call failed.
FailedRefreshThenLogin(h) ==
    h.refreshed = "False" => (h.sent # <<>> /\ h.sent[Len(h.sent)] = "login")
C4_BothFailRaises ==
    (GftCompleted /\ last.h.refreshed = "False" /\ last.h.logged_in = "False") =>
        last.result = Raise("CouldNotAuthenticate")

\* C5: after a successful _refresh_access_token the renewed token is stored with
\* its decoded expiry, so that a following get_fresh_token made before that
\* expiry returns the renewed token string without a network call.
RenewedTokenStored ==
    /\ access_token # None
    /\ access_token.kind = "str"
    /\ HoldsFreshToken(Auth, now)
C5_RenewedTokenServed ==
    [][\A t \in Tasks :
        (CallGetFreshToken(t) /\ RenewedTokenStored) =>
            /\ last'.op = "get_fresh_token"
            /\ last'.result = Return(access_token)
            /\ last'.h.sent = <<>>]_vars

\* C6: _refresh_access_token never raises: for every outcome of the /renew
\* request other than a renewal it returns False, and it returns True only
\* when the access token was renewed.
GoodRenew(resp) ==
    /\ resp.net = "ok"
    /\ Has(resp.body, "code") /\ resp.body.code = "OK"
    /\ Has(resp.body, "data") /\ Has(resp.body.data, "accessToken")
    /\ resp.body.data.accessToken.exp # Undecodable
C6_RefreshNeverRaises ==
    /\ \A t \in Tasks : tasks[t].pc = "renew_wait" =>
          \A resp \in RenewResponses(now) :
              LET r == _refresh_access_token(Auth, resp) IN
              /\ r.out.ok
              /\ ~GoodRenew(resp) => r.out.val = "False"
              /\ r.out.val = "True" =>
                     /\ GoodRenew(resp)
                     /\ r.auth.access_token = resp.body.data.accessToken
    /\ GftCompleted => last.h.refreshed # "raised"

\* C7: AuthManager.login never raises: on a malformed response, a network
\* failure or a non-OK envelope code it returns False, and it returns True
\* only when both tokens were stored.
GoodLogin(resp) ==
    /\ resp.net = "ok"
    /\ Has(resp.body, "code") /\ resp.body.code = "OK"
    /\ Has(resp.body, "data") /\ Has(resp.body.data, "accessToken")
    /\ resp.body.data.accessToken.exp # Undecodable
    /\ Has(resp.body.data, "refreshToken")
    /\ Has(resp.body.data.refreshToken, "token")
    /\ Has(resp.body.data.refreshToken, "expiresAt")
    /\ resp.body.data.refreshToken.expiresAt # BadDate
C7_LoginNeverRaises ==
    /\ \A t \in Tasks : tasks[t].pc = "login_wait" =>
          \A resp \in LoginResponses(now) :
              LET r == login(Auth, resp) IN
              /\ r.out.ok
              /\ ~GoodLogin(resp) => r.out.val = "False"
              /\ r.out.val = "True" =>
                     /\ GoodLogin(resp)
                     /\ r.auth.access_token.token = resp.body.data.accessToken
                     /\ r.auth.refresh_token.token = resp.body.data.refreshToken.token
    /\ last.h.logged_in # "raised"

\* C8: when the refresh token is absent or expired, _refresh_access_token
\* returns False at once, sends no request and changes no token state.
NeedsRefresh ==
    \/ access_token = None
    \/ access_token.kind = "ExpirableToken" /\ is_expired(access_token, now)
NoUsableRefreshToken ==
    \/ refresh_token = None
    \/ now >= refresh_token.expiry
C8_RefreshShortCircuit ==
    [][\A t \in Tasks :
        (CallGetFreshToken(t) /\ NeedsRefresh /\ NoUsableRefreshToken) =>
            /\ tasks'[t].h.refreshed = "False"
            /\ tasks'[t].h.sent = <<"login">>
            /\ UNCHANGED <<access_token, access_token_expiry, refresh_token>>]_vars
C8_Witness ==
    /\ refresh_token # None
    /\ is_expired(refresh_token, now)
    /\ \E t \in Tasks : /\ tasks[t].op = "get_fresh_token"
                        /\ tasks[t].h.refreshed = "False"
                        /\ tasks[t].h.sent = <<"login">>


(***************************************************************************)
(* Claims about _make_request, checked under SpecRequest                   *)
(***************************************************************************)
NonOkEnvelope(resp) ==
    /\ resp.net = "ok"
    /\ ~(Has(resp.body, "code") /\ resp.body.code = "OK")

\* C9: every call made through _make_request (helpers.py and whitebox.py) whose
\* response envelope has a code other than "OK" fails with RequestFailed: it
\* returns no value and fails with no other error.
C9_NonOkIsRequestFailed ==
    (request.state = "done" /\ NonOkEnvelope(request.resp)) =>
        request.made.result = Raise("RequestFailed")

\* C23: _make_request sends Authorization: Bearer <token> exactly when a token is
\* supplied and the caller's headers hold no Authorization entry; an Authorization
\* header of the caller is sent as it is, none is added when no token is supplied,
\* and the caller's other headers are sent unchanged.
C23_BearerOnlyWhenAbsent ==
    request.state = "done" =>
        LET given == IF request.headers = None THEN EmptyDict ELSE request.headers
            sent == request.made.headers
        IN  /\ \A k \in DOMAIN given : Has(sent, k) /\ sent[k] = given[k]
            /\ DOMAIN sent \subseteq DOMAIN given \cup {"Authorization"}
            /\ (Has(sent, "Authorization") /\ sent["Authorization"] = Bearer(request.token))
                   <=> (request.token # None /\ ~Has(given, "Authorization"))
            /\ (request.token = None /\ ~Has(given, "Authorization")) =>
                   ~Has(sent, "Authorization")
\* a call made with a token and with an Authorization header of its own
C23_Witness ==
    /\ request.state = "done"
    /\ request.token # None
    /\ request.headers # None
    /\ Has(request.headers, "Authorization")
    /\ request.made.headers["Authorization"] = request.headers["Authorization"]

(***************************************************************************)
(* Claims about the unit listing, checked under SpecUnits                  *)
(***************************************************************************)
Occurrences(l, k) == Cardinality({i \in DOMAIN l : l[i] = k})
Listed(l, k) == Occurrences(l, k) > 0

\* two unit-listing calls were made, one after the other and neither with
\* force_fresh, and both returned
TwoListings ==
    /\ seen.started = 2
    /\ Len(seen.lists) = 2
    /\ ~seen.overlap
    /\ ~seen.forced
    /\ ~seen.failed

\* C10 as stated: across two successive unit-listing calls without force_fresh,
\* whatever lists the backend returns, exactly one unit-detail request is issued
\* per distinct listed unit id in total.
C10_OneRequestPerId ==
    TwoListings =>
        \A k \in UnitIds :
            seen.details[k] = IF Listed(seen.lists[1], k) \/ Listed(seen.lists[2], k)
                              THEN 1 ELSE 0

\* C10: across two successive unit-listing calls without force_fresh, the call
\* whose list is the first to name a unit id issues the only unit-detail requests
\* for it: one per occurrence of the id in that list with fetch_user_units of
\* api.py (hence exactly one when the list names it once), exactly one with
\* _fetch_units of whitebox.py; a later listing of the id is served from the cache.
C10_RequestsOnFirstListing ==
    TwoListings =>
        \A k \in UnitIds :
            LET first == IF Listed(seen.lists[1], k) THEN seen.lists[1] ELSE seen.lists[2]
            IN  seen.details[k] = IF client = "api.py" THEN Occurrences(first, k)
                                  ELSE IF Listed(first, k) THEN 1 ELSE 0
C10_Witness ==
    /\ TwoListings
    /\ client = "api.py"
    /\ \E k \in UnitIds : /\ Occurrences(seen.lists[1], k) = 1
                          /\ Listed(seen.lists[2], k)
                          /\ seen.details[k] = 1
                          /\ \A i \in DOMAIN last.fetched : ~last.fetched[i]

\* a detail response that carries unit details
GoodDetail(resp) == resp.net = "ok" /\ resp.body.code = "OK"

\* C11: fetch_user_units(force_fresh=true) issues a unit-detail request for every
\* listed unit in that call whatever the cache holds, returns the details those
\* requests fetched, and replaces each unit's cache entry with them.
C11_ForceFreshRefetches ==
    [][/\ \A t \in Callers, i \in Kids, resp \in DetailResponses :
              (DetailResponse(t, i, resp) /\ tasks[t].force /\ GoodDetail(resp)) =>
                  LET unit == UnitDetails(tasks[t].kids[i].unit_id, resp.body.data, now)
                  IN  /\ tasks[t].kids[i].fetched
                      /\ _unit_cache'[tasks[t].kids[i].unit_id] = unit
                      /\ tasks[t].pc = "gather" =>
                             tasks'[t].kids[i].result = Return(unit)
       /\ \A t \in Callers :
              (GatherDone(t) /\ last'.force /\ last'.result.kind = "return"
                             /\ ~seen.overlap) =>
                  \A i \in DOMAIN last'.listed :
                      /\ last'.fetched[i]
                      /\ last'.result.value[i] = tasks[t].kids[i].result.value
                      /\ last'.result.value[i].unit_id = last'.listed[i]
                      /\ \E j \in DOMAIN last'.listed :
                             /\ last'.listed[j] = last'.listed[i]
                             /\ _unit_cache'[last'.listed[i]] = last'.result.value[j]
      ]_vars
C11_Witness ==
    /\ last.op = "fetch_user_units"
    /\ last.force
    /\ last.result.kind = "return"
    /\ Len(seen.lists) = 2
    /\ ~seen.overlap
    /\ \E k \in UnitIds : /\ Listed(seen.lists[1], k)
                          /\ Listed(seen.lists[2], k)
                          /\ seen.details[k] = 2

\* C12: a unit id once in the unit cache is never removed, and its cached entry
\* is replaced only by a step of a call made with force_fresh=true.
C12_CacheKeptUnlessForced ==
    [][\A k \in DOMAIN _unit_cache :
           /\ k \in DOMAIN _unit_cache'
           /\ _unit_cache'[k] # _unit_cache[k] =>
                  \E t \in Tasks : /\ Gathering(t)
                                   /\ tasks[t].force
                                   /\ tasks'[t] # tasks[t]
      ]_vars

(***************************************************************************)
(* Claims about fetch_all_unit_updates, checked under SpecUpdates          *)
(***************************************************************************)
\* C13: a fetch_all_unit_updates in which a request (the unit list, a unit detail or
\* a metric's test results) was answered with a non-success envelope fails with
\* RequestFailed, returns no mapping, and has sent no request a second time: at most
\* the list request, one detail request and two metric requests per listed unit.
C13_RefusedRaisesRequestFailed ==
    (last.op = "fetch_all_unit_updates" /\ last.refused) =>
        /\ last.result = Raise("RequestFailed")
        /\ last.requests <= 1 + 3 * Len(last.listed)

\* C14: a fetch_all_unit_updates all of whose requests succeeded returns a mapping
\* whose keys are exactly the unit ids the backend listed, and whose value under
\* each id holds the details of that unit and, under both metric keys, the results
\* the backend gave for that unit and that metric.
C14_UpdatesPairUnits ==
    (last.op = "fetch_all_unit_updates" /\ ~last.refused /\ ~last.denied) =>
        /\ last.result.kind = "return"
        /\ DOMAIN last.result.value = {last.listed[i] : i \in DOMAIN last.listed}
        /\ \A k \in DOMAIN last.result.value :
               /\ last.result.value[k].unit.unit_id = k
               /\ \A m \in MetricIds :
                      LET tests == last.result.value[k].measurements[Metrics[m]] IN
                      /\ tests.metric_key = Metrics[m]
                      /\ Len(tests.results) = 1
                      /\ tests.results[1].value = BackendRow(k, m).metricValue

(***************************************************************************)
(* Claims about the joins of the concurrent fetches                        *)
(***************************************************************************)
\* C15: the list a fetch_user_units returns holds, at each position, the details of
\* the unit id the backend listed at that position, whichever of the per-unit
\* fetches completed first and whichever of them were served from the cache.
C15_UnitsInListedOrder ==
    (last.op = "fetch_user_units" /\ last.result.kind = "return") =>
        /\ Len(last.result.value) = Len(last.listed)
        /\ \A i \in DOMAIN last.listed : last.result.value[i].unit_id = last.listed[i]
\* a call has returned two different units, the first fetched from the backend after
\* the second had been served from the cache
C15_Witness ==
    /\ last.op = "fetch_user_units"
    /\ last.result.kind = "return"
    /\ Len(last.listed) = 2
    /\ last.listed[1] # last.listed[2]
    /\ last.fetched[1]
    /\ ~last.fetched[2]

(***************************************************************************)
(* Claims about _fetch_scheduled_test_results, checked under SpecSort      *)
(***************************************************************************)
\* the rows of the response of the call, parsed in the order of the response
ParsedRows ==
    ParseRows(RequestOutcome("helpers.py", request.resp).value.results, request.target_date)

\* C16: the results of a returned _fetch_scheduled_test_results are a permutation of
\* the parsed rows of the response, no result is earlier than the one after it, and
\* so results[0], which consumers read as the latest one, has the maximum timestamp.
C16_LatestFirst ==
    (request.state = "done" /\ request.made.kind = "return") =>
        LET results == request.made.value.results
            parsed == ParsedRows.val
        IN  /\ Len(results) = Len(parsed)
            /\ \A x \in {parsed[i] : i \in DOMAIN parsed} :
                   Occurrences(results, x) = Occurrences(parsed, x)
            /\ \A i \in DOMAIN results : \A j \in DOMAIN results :
                   i < j => ~Earlier(results[i].timestamp, results[j].timestamp)
            /\ \A x \in {parsed[i] : i \in DOMAIN parsed} :
                   results # <<>> /\ ~Earlier(results[1].timestamp, x.timestamp)
\* three rows that arrived with the latest one last
C16_Witness ==
    /\ request.state = "done"
    /\ request.made.kind = "return"
    /\ Len(request.made.value.results) = 3
    /\ LET rows == RequestOutcome("helpers.py", request.resp).value.results
       IN  rows[1].time < rows[2].time /\ rows[2].time < rows[3].time

\* a row of a scheduled-test response that lacks a field or carries a time of day
\* that does not parse
Malformed(row) ==
    \/ ~Has(row, "time")
    \/ ~Has(row, "metricValue")
    \/ ~Has(row, "target")
    \/ row.time = BadClock

\* C21: a _fetch_scheduled_test_results whose response holds a malformed row fails
\* as a whole: it raises, and returns no record, neither one without the row nor
\* one with the row partly filled.
C21_MalformedRowFails ==
    (/\ request.state = "done"
     /\ \E i \in DOMAIN request.resp.body.data.results :
            Malformed(request.resp.body.data.results[i])) =>
        /\ request.made.kind = "raise"
        /\ request.made.exc \in {"KeyError", "ValueError"}
\* the call has raised on a response whose last row alone is malformed
C21_Witness ==
    /\ request.state = "done"
    /\ request.made.kind = "raise"
    /\ LET rows == request.resp.body.data.results IN
       /\ Len(rows) = 3
       /\ ~Malformed(rows[1])
       /\ ~Malformed(rows[2])
       /\ Malformed(rows[3])

(***************************************************************************)
(* Claims about fetch_scheduled_unit_tests, checked under SpecTests        *)
(***************************************************************************)
\* C17: a fetch_scheduled_unit_tests that has its token has both metric requests in
\* flight before either is answered, and a call that returns gives one record
\* with the date of the call and, under each metric key, what
\* _fetch_scheduled_test_results made of the response to the request for that
\* metric, whichever response came first.
C17_BothMetricsJoined ==
    [][\A t \in Callers :
           /\ (tasks[t].op = "fetch_scheduled_unit_tests" /\ tasks'[t].op = tasks[t].op
               /\ tasks[t].pc # "metrics" /\ tasks'[t].pc = "metrics") =>
                  \A m \in MetricIds : tasks'[t].got[m] = NoResult
           /\ \A m \in MetricIds : \A resp \in MetricResponses :
                  (MetricResponse(t, m, resp) /\ last' # last
                   /\ last'.result.kind = "return") =>
                      LET other == CHOOSE i \in MetricIds : i # m IN
                      /\ DOMAIN last'.result.value = {"date"} \cup {Metrics[i] : i \in MetricIds}
                      /\ last'.result.value.date = tasks[t].date
                      /\ last'.result.value[Metrics[m]] =
                             _fetch_scheduled_test_results(Metrics[m], tasks[t].date,
                                                           resp).value
                      /\ last'.result.value[Metrics[other]] = tasks[t].got[other].value
                      /\ last'.result.value[Metrics[other]].metric_key = Metrics[other]
      ]_vars
\* a call has returned a record whose two metrics hold different rows
C17_Witness ==
    /\ last.op = "fetch_scheduled_unit_tests"
    /\ last.result.kind = "return"
    /\ last.result.value["httpgetmt"].results # <<>>
    /\ last.result.value["httpgetmt"].results # last.result.value["httppostmt"].results

(***************************************************************************)
(* Claims about what concurrent callers share                              *)
(***************************************************************************)
\* C18: first-time resolutions of one unit id are not deduplicated: when the list
\* response arrives, every listed occurrence of an id that is not in the cache
\* sends its own unit-detail request, also when the same id occurs earlier in the
\* list or another request for it is already in flight.
C18_EveryOccurrenceFetches ==
    [][\A t \in Callers : \A resp \in ListResponses :
           (ListResponse(t, resp) /\ RequestOutcome("helpers.py", resp).kind = "return") =>
               LET listed == resp.body.data.units IN
               \A i \in DOMAIN listed :
                   listed[i].unitId \notin DOMAIN _unit_cache =>
                       /\ i \in DOMAIN tasks'[t].kids
                       /\ tasks'[t].kids[i].unit_id = listed[i].unitId
                       /\ tasks'[t].kids[i].pc = "detail_wait"
                       /\ seen'.details[listed[i].unitId] =
                              seen.details[listed[i].unitId]
                              + Cardinality({j \in DOMAIN listed :
                                                 listed[j].unitId = listed[i].unitId})
      ]_vars
\* two unit-detail requests for one unit id are in flight at the same time
C18_Witness ==
    \E t \in Tasks, u \in Tasks :
        /\ Gathering(t)
        /\ Gathering(u)
        /\ \E i \in DOMAIN tasks[t].kids, j \in DOMAIN tasks[u].kids :
               /\ t # u \/ i # j
               /\ tasks[t].kids[i].unit_id = tasks[u].kids[j].unit_id
               /\ tasks[t].kids[i].pc = "detail_wait"
               /\ tasks[u].kids[j].pc = "detail_wait"

\* C19: token acquisition is not serialized: a get_fresh_token call that finds no
\* access token, or an expired one, sends its own renewal or login request,
\* whatever requests other tasks have in flight.
C19_EachCallerAcquires ==
    [][\A t \in Tasks :
           (/\ CallGetFreshToken(t)
            /\ \/ access_token = None
               \/ /\ access_token.kind = "ExpirableToken"
                  /\ is_expired(access_token, now)) =>
               /\ tasks'[t].pc \in {"renew_wait", "login_wait"}
               /\ Len(tasks'[t].h.sent) = 1
      ]_vars
\* two tasks each have a renewal or login request of get_fresh_token in flight,
\* and the access token they went to replace had expired
C19_Witness ==
    /\ access_token # None
    /\ access_token.kind = "ExpirableToken"
    /\ is_expired(access_token, now)
    /\ \E t \in Tasks, u \in Tasks :
           /\ t # u
           /\ tasks[t].op = "get_fresh_token"
           /\ tasks[u].op = "get_fresh_token"
           /\ tasks[t].pc \in {"renew_wait", "login_wait"}
           /\ tasks[u].pc \in {"renew_wait", "login_wait"}

(***************************************************************************)
(* Claims about the polling cycle, checked under SpecCoordinator           *)
(***************************************************************************)
\* the step ends the cycle task t runs
CycleEnds(t) ==
    /\ tasks[t].op = "_async_update_data"
    /\ tasks[t].pc \in {"units", "tests"}
    /\ tasks'[t].pc \notin {"units", "tests"}

\* C20: a polling cycle that times out, or in which a request is answered with a
\* non-success envelope, raises and leaves the published snapshot as it was; the
\* snapshot changes only when a cycle returns, and then to the complete mapping of
\* the units that cycle listed.
C20_FailedCycleKeepsSnapshot ==
    [][/\ \A t \in Tasks :
              (CycleEnds(t) /\ (Timeout(t) \/ last'.refused \/ last'.denied)) =>
                  /\ last'.result.kind = "raise"
                  /\ coordinator_data' = coordinator_data
       /\ coordinator_data' # coordinator_data =>
              /\ \E t \in Tasks : CycleEnds(t)
              /\ last'.result.kind = "return"
              /\ ~last'.refused
              /\ coordinator_data' = last'.result.value
              /\ DOMAIN coordinator_data'.units =
                     {last'.listed[i] : i \in DOMAIN last'.listed}
      ]_vars
\* a cycle has published a snapshot of a unit and the cycle after it has failed
\* on a refused request
C20_Witness ==
    /\ coordinator_data # None
    /\ DOMAIN coordinator_data.units # {}
    /\ last.op = "_async_update_data"
    /\ last.refused
    /\ last.result.kind = "raise"

(***************************************************************************)
(* Further claims about AuthManager, checked under SpecAuth                *)
(***************************************************************************)
\* C22: a token counts as expired exactly from the moment the clock reaches its
\* expiry, the access token and the refresh token each on its own: a
\* get_fresh_token call returns the stored access token without a request exactly
\* when the clock is before the access token's expiry, and otherwise sends /renew
\* exactly when a refresh token is stored and the clock is before its expiry.
C22_ExpiredFromExpiryOn ==
    [][\A t \in Tasks :
           (CallGetFreshToken(t) /\ access_token # None
            /\ access_token.kind = "ExpirableToken") =>
               /\ tasks'[t].pc = "idle" <=> now < access_token.expiry
               /\ now < access_token.expiry => last'.result = Return(access_token.token)
               /\ tasks'[t].pc = "renew_wait" <=>
                      /\ now >= access_token.expiry
                      /\ refresh_token # None
                      /\ now < refresh_token.expiry
               /\ tasks'[t].pc = "login_wait" <=>
                      /\ now >= access_token.expiry
                      /\ refresh_token # None => now >= refresh_token.expiry
      ]_vars
\* a call made at the very moment the access token expires has sent /renew
C22_Witness ==
    \E t \in Tasks :
        /\ tasks[t].op = "get_fresh_token"
        /\ tasks[t].pc = "renew_wait"
        /\ \A u \in Tasks \ {t} : Free(u)
        /\ access_token # None
        /\ access_token.kind = "ExpirableToken"
        /\ access_token.expiry = now
        /\ refresh_token # None
        /\ refresh_token.expiry > now

\* what a get_fresh_token call has sent and learnt so far, for the calls in flight
\* and the one that completed last
GftHistories ==
    {tasks[t].h : t \in {u \in Tasks : tasks[u].op = "get_fresh_token"}}
    \cup (IF last.op = "get_fresh_token" THEN {last.h} ELSE {})

\* C24: one get_fresh_token call sends at most one /renew and at most one /login, so
\* at most two requests; it sends /login only after its own refresh attempt has
\* reported failure, and never when that attempt succeeded.
C24_AtMostRenewThenLogin ==
    \A h \in GftHistories :
        /\ Occurrences(h.sent, "renew") <= 1
        /\ Occurrences(h.sent, "login") <= 1
        /\ Len(h.sent) <= 2
        /\ Occurrences(h.sent, "login") = 1 =>
               /\ h.refreshed = "False"
               /\ h.sent[Len(h.sent)] = "login"
        /\ h.refreshed = "True" => Occurrences(h.sent, "login") = 0
\* a call has sent /renew, then /login, and returned
C24_Witness ==
    /\ last.op = "get_fresh_token"
    /\ last.h.sent = <<"renew", "login">>
    /\ last.result.kind = "return"

(***************************************************************************)
(* Claims about the whitebox.py client, checked under SpecWhitebox         *)
(***************************************************************************)
\* C25: whenever _get_fresh_token of whitebox.py completes without raising, on the
\* fast path, the refresh path or the re-login path, it returns the stored access
\* token string, so the request sent next carries that token.
C25_WbTokenReturned ==
    \A t \in Tasks :
        (tasks[t].op = "_fetch_units" /\ tasks[t].pc \in {"list_wait", "detail_wait"}) =>
            /\ tasks[t].token # None
            /\ tasks[t].token = wb.access_token

\* C26: login is all-or-nothing over the token pair: a step that handles a /login
\* response, whatever the call then returns or raises, either stores the access
\* token and the refresh token of that response or changes neither of the two.
C26_LoginAllOrNothing ==
    [][\A t \in Tasks : \A resp \in LoginResponses(now) :
           (DirectLoginResponse(t, resp) \/ LoginResponse(t, resp)) =>
               \/ UNCHANGED <<access_token, refresh_token>>
               \/ /\ GoodLogin(resp)
                  /\ access_token'.token = resp.body.data.accessToken
                  /\ refresh_token'.token = resp.body.data.refreshToken.token
      ]_vars

\* C27: a login whose response envelope carries a code other than "OK" returns
\* False and leaves the stored access token and the stored refresh token as they
\* were, called directly or by get_fresh_token.
C27_RefusedLoginKeepsTokens ==
    [][\A t \in Tasks : \A resp \in LoginResponses(now) :
           ((DirectLoginResponse(t, resp) \/ LoginResponse(t, resp))
            /\ NonOkEnvelope(resp)) =>
               /\ UNCHANGED <<access_token, refresh_token>>
               /\ last'.h.logged_in = "False"
               /\ DirectLoginResponse(t, resp) => last'.result = Return("False")
      ]_vars
\* a direct login has returned False while a token pair was held
C27_Witness ==
    /\ last.op = "login"
    /\ last.result = Return("False")
    /\ access_token # None
    /\ refresh_token # None

\* the detail request of a _get_unit call did not deliver a success envelope
DetailFailed(resp) == resp.net # "ok" \/ NonOk(resp)

\* C28: a failed unit-detail request inside _get_unit leaves the unit cache as it
\* was (an uncached id stays absent, a cached entry is kept under force_fresh), and
\* the cache changes only in the step that receives a successful detail response.
C28_FailedDetailKeepsCache ==
    [][/\ \A t \in Tasks : \A i \in Kids : \A resp \in DetailResponses :
              (DetailResponse(t, i, resp) /\ DetailFailed(resp)) =>
                  _unit_cache' = _unit_cache
       /\ _unit_cache' # _unit_cache =>
              \E t \in Tasks : \E i \in Kids : \E resp \in DetailResponses :
                  DetailResponse(t, i, resp) /\ ~DetailFailed(resp)
      ]_vars
\* a forced refresh whose detail request failed, the id's earlier entry still cached
C28_Witness ==
    \E t \in Tasks :
        /\ Gathering(t)
        /\ tasks[t].force
        /\ \E i \in DOMAIN tasks[t].kids :
               /\ KidRaised(tasks[t].kids[i])
               /\ tasks[t].kids[i].fetched
               /\ tasks[t].kids[i].unit_id \in DOMAIN _unit_cache

\* C29: every entry of the api.py client's unit cache stored under key k has
\* unit_id k, and an entry appears or changes under k only in the step in which a
\* _get_unit call for k receives a success envelope, whatever the order in which
\* the _get_unit calls of a gather receive their responses.
C29_CacheKeyedByOwnRequest ==
    /\ [](\A k \in DOMAIN _unit_cache : _unit_cache[k].unit_id = k)
    /\ [][\A k \in DOMAIN _unit_cache' :
              (k \notin DOMAIN _unit_cache \/ _unit_cache'[k] # _unit_cache[k]) =>
                  \E t \in Tasks : \E i \in Kids : \E resp \in DetailResponses :
                      /\ DetailResponse(t, i, resp)
                      /\ tasks[t].kids[i].unit_id = k
                      /\ ~DetailFailed(resp)
                      /\ _unit_cache'[k] = UnitDetails(k, resp.body.data, now)
        ]_vars
\* both ids cached, one from a response that named the other id, while another
\* _get_unit call of the same gather still waits for its response
C29_Witness ==
    /\ DOMAIN _unit_cache = UnitIds
    /\ \E t \in Tasks :
           /\ Gathering(t)
           /\ \E i, j \in DOMAIN tasks[t].kids :
                  /\ tasks[t].kids[i].pc = "detail_wait"
                  /\ KidDone(tasks[t].kids[j])
                  /\ tasks[t].kids[j].fetched
                  /\ ~KidRaised(tasks[t].kids[j])

(***************************************************************************)
(* Claims about MetricEntity, checked under SpecEntity                     *)
(***************************************************************************)
\* C30: _handle_coordinator_update assigns the entity's value and writes state only
\* when the new snapshot has the entity's unit, the unit's tests have the entity's
\* metric and the metric has a result; the value is then that of result 0, which no
\* other result of the metric is later than; otherwise the value stays and no
\* state is written.
C30_ValueFromLatestResult ==
    [][\A d \in Snapshots :
           CoordinatorRefreshed(d) =>
               IF /\ entity.unit_id \in DOMAIN d.units
                  /\ Has(d.units[entity.unit_id].latest_tests, entity.metric)
                  /\ Len(d.units[entity.unit_id].latest_tests[entity.metric].results) > 0
               THEN LET results ==
                            d.units[entity.unit_id].latest_tests[entity.metric].results
                    IN  /\ entity'._attr_native_value = results[1].value
                        /\ entity'.wrote
                        /\ \A i \in DOMAIN results :
                               ~Earlier(results[1].timestamp, results[i].timestamp)
               ELSE /\ entity'._attr_native_value = entity._attr_native_value
                    /\ ~entity'.wrote
      ]_vars
\* the entity has taken the value of the later of two results of its metric
C30_Witness ==
    /\ entity # None
    /\ entity.wrote
    /\ entity.unit_id \in DOMAIN coordinator_data.units
    /\ LET results ==
               coordinator_data.units[entity.unit_id].latest_tests[entity.metric].results
       IN  /\ Len(results) = 2
           /\ Earlier(results[2].timestamp, results[1].timestamp)
           /\ entity._attr_native_value = results[1].value
           /\ entity._attr_native_value # results[2].value

(***************************************************************************)
(* Claims about the token of fetch_scheduled_unit_tests, checked under     *)
(* SpecTests                                                               *)
(***************************************************************************)
\* C31: fetch_scheduled_unit_tests gets its token once, before the two metric
\* requests go out: the token of the call is what get_fresh_token returned, the
\* stored access token of that moment; while the metric requests are in flight
\* the call keeps that token and goes back to no /renew and no /login, and the
\* step that receives a metric response changes no token of the AuthManager,
\* also when the access token expires meanwhile.
C31_TokenOnceBeforeFanOut ==
    [][\A t \in Callers :
           /\ (tasks[t].pc # "metrics" /\ tasks'[t].op = "fetch_scheduled_unit_tests"
               /\ tasks'[t].pc = "metrics") =>
                  /\ access_token'.kind = "ExpirableToken"
                  /\ tasks'[t].token = access_token'.token
                  /\ \A m \in MetricIds : tasks'[t].got[m] = NoResult
           /\ \A m \in MetricIds : \A resp \in MetricResponses :
                  MetricResponse(t, m, resp) =>
                      UNCHANGED <<access_token, access_token_expiry, refresh_token>>
           /\ (tasks[t].op = "fetch_scheduled_unit_tests" /\ tasks[t].pc = "metrics") =>
                  /\ tasks'[t].pc \in {"metrics", "idle"}
                  /\ tasks'[t].pc = "metrics" => tasks'[t].token = tasks[t].token
                  /\ tasks'[t].pc = "idle" =>
                         /\ last'.op = "fetch_scheduled_unit_tests"
                         /\ last'.token = tasks[t].token
      ]_vars
\* a call has returned both metrics on the token it got at its start, which had
\* expired by the time the last response came
C31_Witness ==
    /\ last.op = "fetch_scheduled_unit_tests"
    /\ last.result.kind = "return"
    /\ access_token # None
    /\ access_token.kind = "ExpirableToken"
    /\ last.token = access_token.token
    /\ is_expired(access_token, now)

(***************************************************************************)
(* Claims about fetch_unit_measurements of whitebox.py, checked under      *)
(* SpecMeasurements                                                        *)
(***************************************************************************)
\* C32: in a fetch_unit_measurements that goes on or returns after a metric's
\* response, a response with results puts the value of its most recent result
\* (the one no other result's time is later than) under that metric, and a
\* response without results leaves the collected values as they were.
C32_MostRecentValuePerMetric ==
    [][\A t \in Callers : \A resp \in MeasurementResponses :
           (/\ WbMeasurementResponse(t, resp)
            /\ RequestOutcome("whitebox.py", resp).kind = "return"
            /\ \/ tasks'[t].op = "fetch_unit_measurements"
               \/ last'.result.kind = "return") =>
               LET p == tasks[t]
                   rows == resp.body.data.results
                   after == IF tasks'[t].op = "fetch_unit_measurements"
                            THEN tasks'[t].metric_results
                            ELSE last'.result.value
               IN  IF Len(rows) = 0 THEN after = p.metric_results
                   ELSE /\ Has(after, p.metrics[p.i])
                        /\ \E j \in DOMAIN rows :
                               /\ \A i \in DOMAIN rows : rows[i].time <= rows[j].time
                               /\ after[p.metrics[p.i]] = rows[j].metricValue
      ]_vars

====
